---- MODULE Spec2Model ----
(***************************************************************************)
(* Venalabs Stellar SDK: the authenticated API client (VenalabsApiClient), *)
(* its token cache / refresh coordinator, the retrying transport           *)
(* (fetchWithRetry) and the error taxonomy (VenalabsApiError).             *)
(*                                                                         *)
(* JavaScript is single threaded: every action below is one run of         *)
(* synchronous code between two suspension points (an await, a timer, the  *)
(* arrival of a response).  Logical calls interleave only at those points. *)
(***************************************************************************)
EXTENDS Integers, Sequences, FiniteSets, TLC

\* ---------------------------------------------------------------- bounds
\* Number of logical client calls (get/post) issued on one client instance.
NumCalls == 2
\* Number of times the environment may deviate from the plain course (a 200 response with
\* a JSON body at once, a non-empty token from the provider) in one behaviour of the client.
MaxFaults == 2
\* Largest `retries` option tried when the transport is driven on its own.
MaxRetries == 2
\* Largest HTTP status drawn for the transport and for fromResponse.
MaxStatus == 599

Calls == 1..NumCalls

\* ------------------------------------------------------------- constants
\* null (cachedToken, tokenPromise)
Null == -1
\* the empty string "" as a token: falsy in `if (this.cachedToken)`
EmptyString == 0
\* getRetryOptions(): retries: 1
CLIENT_RETRIES == 1
\* getRetryOptions(): retryDelay: 2000 (ms)
RETRY_DELAY == 2000

VARIABLES
    \* --- token coordinator (one client instance)
    cachedToken,        \* this.cachedToken: Null, EmptyString or a token (= id of the invocation that returned it)
    tokenPromise,       \* this.tokenPromise: Null or the id of the provider invocation it wraps
    invState,           \* sequence, one entry per tokenProvider() invocation: its promise's state
    \* --- one logical call (get / post) per element of Calls
    pc,                 \* where the call is suspended
    method,             \* "GET" | "POST"
    isRetry,            \* the isRetry argument of get/post
    joined,             \* the refresh (invocation id) the call awaits; 0: getToken() returned the cache
    epoch,              \* history: refresh callbacks already run when the call last entered refreshToken()
    tok,                \* the token the call's Authorization header carries
    \* --- fetchWithRetry invocation of the call
    retries,            \* the `retries` option
    attemptsRemaining,
    lastError,          \* null, the VenalabsApiError of a timeout, or the Error fetch() rejected with
    last,               \* outcome of the latest fetch() attempt
    ret,                \* what fetchWithRetry returned or threw
    attempts,           \* history: fetch() calls made by the current fetchWithRetry invocation
    priorAttempts,      \* history: fetch() calls made by earlier sends of the same logical call
    aborts,             \* history: controller.abort() calls (timeouts) of the logical call
    sleeps,             \* history: the delays of the sleep() calls of the latest fetchWithRetry invocation
    refreshSteps,       \* history: 401-triggered clearToken()+refreshToken() steps of the call
    refreshedBy,        \* history: the provider invocation the call awaited in its 401 branch (0: none)
    outcome,            \* how the logical call settled
    \* --- the environment
    faults,             \* deviations from the plain course so far (bounded by MaxFaults)
    \* --- VenalabsApiError exercised on its own
    errIn,
    errOut,
    \* --- the public operation behind each logical call
    op,                 \* the operation invoked (getMaps, getCourse, ...)
    args,               \* its arguments: the required identifiers and the optional request
    endpoint,           \* the `endpoint` argument of get/post
    reqBody,            \* the `body` argument of post
    options,            \* url and RequestInit handed to fetchWithRetry: method, headers, body
    value,              \* the value the operation resolved with
    \* --- construction
    config,             \* the VenalabsApiClientConfig given to the constructor
    client,             \* "none": not constructed yet | "constructed" | "threw"
    ctorError,          \* the message of the Error the constructor threw
    \* --- the provider component around the client
    courseCache,        \* the Map<string, VenalabsCourse> of the provider: course id -> course
    loadPc,             \* where the provider's getCourse of each call is: "none" | "awaiting" | "returned"
    loadId,             \* its courseId argument
    loaded,             \* what it returned: a course or null
    instance,           \* history: how many VenalabsApiClient objects the provider has made
    courseOwner,        \* history: course id -> the client instance its entry was fetched through
    \* --- React state of the provider and its initial fetch
    maps,               \* useState<VenalabsMap[]>([])
    progress,           \* useState<VenalabsProgress[]>([])
    loading,            \* useState(true)
    errorState,         \* `error`: useState<VenalabsApiError | Error | null>(null)
    linkedWalletAddress, \* useState<string | null>(null)
    initPc,             \* where init() of the initial-fetch effect is
    refreshPc,          \* where refreshMaps() and refreshProgress() are
    walletPc            \* where fetchLinkedWallet() is

coordVars == <<cachedToken, tokenPromise, invState>>
callVars == <<pc, method, isRetry, joined, epoch, tok, refreshSteps, refreshedBy, outcome>>
fetchVars == <<retries, attemptsRemaining, lastError, last, ret, attempts, priorAttempts, aborts, sleeps>>
errVars == <<errIn, errOut>>
opVars == <<op, args, endpoint, reqBody>>
ctorVars == <<config, client, ctorError>>
stateVars == <<maps, progress, loading, errorState, linkedWalletAddress, initPc, refreshPc, walletPc>>
courseVars == <<courseCache, loadPc, loadId, loaded, instance, courseOwner>>
memoVars == <<courseVars, stateVars>>
apiVars == <<opVars, options, value, ctorVars, memoVars>>
vars == <<coordVars, callVars, fetchVars, errVars, faults, apiVars>>

\* ------------------------------------------------------- error taxonomy
VenalabsErrorCodes ==
    {"INVALID_API_KEY", "INVALID_TOKEN", "TOKEN_EXPIRED", "NOT_FOUND", "NETWORK_ERROR",
     "RATE_LIMITED", "TIMEOUT", "SERVER_ERROR", "UNKNOWN"}

\* new VenalabsApiError(code, status, message)
VenalabsApiError(code, status) == [code |-> code, status |-> status]

\* body?.type of an error body: the hint, another type, or no type / no body
BodyTypes == {"TOKEN_EXPIRED", "INVALID_TOKEN", "NONE"}

\* fromResponse without `case 429`
fromResponseWithout429(status, type) ==
    CASE status = 401 ->
            VenalabsApiError(IF type = "TOKEN_EXPIRED" THEN "TOKEN_EXPIRED" ELSE "INVALID_TOKEN", status)
      [] status = 403 -> VenalabsApiError("INVALID_API_KEY", status)
      [] status = 404 -> VenalabsApiError("NOT_FOUND", status)
      [] OTHER -> IF status >= 500
                  THEN VenalabsApiError("SERVER_ERROR", status)
                  ELSE VenalabsApiError("UNKNOWN", status)

fromResponse(status, type) ==
    CASE status = 401 ->
            VenalabsApiError(IF type = "TOKEN_EXPIRED" THEN "TOKEN_EXPIRED" ELSE "INVALID_TOKEN", status)
      [] status = 403 -> VenalabsApiError("INVALID_API_KEY", status)
      [] status = 404 -> VenalabsApiError("NOT_FOUND", status)
      [] status = 429 -> VenalabsApiError("RATE_LIMITED", status)
      [] OTHER -> IF status >= 500
                  THEN VenalabsApiError("SERVER_ERROR", status)
                  ELSE VenalabsApiError("UNKNOWN", status)

\* a network failure reported with the catch-all kind
fromNetworkErrorAsUnknown(error) == VenalabsApiError("UNKNOWN", 0)

fromNetworkError(error) == VenalabsApiError("NETWORK_ERROR", 0)

\* a timeout reported as a network failure
fromTimeoutAsNetworkError == VenalabsApiError("NETWORK_ERROR", 0)

\* a timeout reported with the status of an HTTP 408 answer
fromTimeoutWithStatus == VenalabsApiError("TIMEOUT", 408)

fromTimeout == VenalabsApiError("TIMEOUT", 0)

isAuthError(e) ==
    \/ e.code = "INVALID_API_KEY"
    \/ e.code = "INVALID_TOKEN"
    \/ e.code = "TOKEN_EXPIRED"

\* isRetryable() without RATE_LIMITED
isRetryableWithoutRateLimited(e) ==
    \/ e.code = "NETWORK_ERROR"
    \/ e.code = "TIMEOUT"
    \/ e.code = "SERVER_ERROR"

isRetryable(e) ==
    \/ e.code = "NETWORK_ERROR"
    \/ e.code = "TIMEOUT"
    \/ e.code = "SERVER_ERROR"
    \/ e.code = "RATE_LIMITED"

\* ------------------------------------------------------------ transport
\* response.ok
ResponseOk(status) == status >= 200 /\ status <= 299

\* every error status retried
isRetryableStatusAnyError(status) == status >= 400

\* a transport that does not retry 429
isRetryableStatusServerOnly(status) == status >= 500

isRetryableStatus(status) == status >= 500 \/ status = 429

\* the budget is not drawn from
decrementNothing(n) == n

\* attemptsRemaining--
decrement(n) == n - 1

\* the outcome of one fetch() attempt.  A response carries its status, the `type` of its
\* JSON error body ("NONE": no type, no body or no JSON) and its body: "json" (parses),
\* "empty0" (empty, content-length: 0) or "empty" (empty, no content-length header)
NoAttempt == [kind |-> "none", status |-> 0, type |-> "NONE", body |-> "empty"]
HttpResponse(status, type, body) == [kind |-> "response", status |-> status, type |-> type, body |-> body]
Aborted == [kind |-> "timeout", status |-> 0, type |-> "NONE", body |-> "empty"]
NetworkFailure == [kind |-> "network", status |-> 0, type |-> "NONE", body |-> "empty"]

\* what fetchWithRetry hands back: the Response it returns or the error it throws
NoReturn == [kind |-> "none", code |-> "NONE", status |-> 0, type |-> "NONE", body |-> "empty"]
Returned(r) == [kind |-> "response", code |-> "NONE", status |-> r.status, type |-> r.type, body |-> r.body]
Thrown(e) == [kind |-> "throw", code |-> e.code, status |-> e.status, type |-> "NONE", body |-> "empty"]

\* lastError: null, or the plain Error a failed fetch() rejected with
NullError == [code |-> "null", status |-> 0]
FetchError == [code |-> "Error", status |-> 0]

\* a transport invocation that starts with what the previous send of the call left over
fetchWithRetrySharedBudget(c) ==
    /\ attemptsRemaining' = [attemptsRemaining EXCEPT ![c] =
          IF isRetry[c] THEN retries + 2 - attempts[c] ELSE retries + 1]
    /\ lastError' = [lastError EXCEPT ![c] = NullError]
    /\ last' = [last EXCEPT ![c] = NoAttempt]
    /\ ret' = [ret EXCEPT ![c] = NoReturn]
    /\ priorAttempts' = [priorAttempts EXCEPT ![c] = @ + attempts[c]]
    /\ attempts' = [attempts EXCEPT ![c] = 1]
    /\ sleeps' = [sleeps EXCEPT ![c] = <<>>]
    /\ pc' = [pc EXCEPT ![c] = "fetch"]

\* fetchWithRetry(url, options, retryOptions) up to its first `await fetch(...)`
fetchWithRetry(c) ==
    /\ attemptsRemaining' = [attemptsRemaining EXCEPT ![c] = retries + 1]
    /\ lastError' = [lastError EXCEPT ![c] = NullError]
    /\ last' = [last EXCEPT ![c] = NoAttempt]
    /\ ret' = [ret EXCEPT ![c] = NoReturn]
    /\ priorAttempts' = [priorAttempts EXCEPT ![c] = @ + attempts[c]]
    /\ attempts' = [attempts EXCEPT ![c] = 1]
    /\ sleeps' = [sleeps EXCEPT ![c] = <<>>]
    /\ pc' = [pc EXCEPT ![c] = "fetch"]

\* a loop that sleeps after every failed attempt, the final one included
retryOrLeaveSleepingFirst(c, final) ==
    LET n == decrement(attemptsRemaining[c]) IN
    /\ attemptsRemaining' = [attemptsRemaining EXCEPT ![c] = n]
    /\ sleeps' = [sleeps EXCEPT ![c] = Append(@, RETRY_DELAY)]
    /\ IF n > 0
       THEN /\ pc' = [pc EXCEPT ![c] = "sleep"]
            /\ UNCHANGED ret
       ELSE /\ pc' = [pc EXCEPT ![c] = "returned"]
            /\ ret' = [ret EXCEPT ![c] = final]

\* after attemptsRemaining--: `await sleep(retryDelay)` and go round the loop, or leave
\* with `final`
retryOrLeave(c, final) ==
    LET n == decrement(attemptsRemaining[c]) IN
    /\ attemptsRemaining' = [attemptsRemaining EXCEPT ![c] = n]
    /\ IF n > 0
       THEN /\ pc' = [pc EXCEPT ![c] = "sleep"]
            /\ sleeps' = [sleeps EXCEPT ![c] = Append(@, RETRY_DELAY)]
            /\ UNCHANGED ret
       ELSE /\ pc' = [pc EXCEPT ![c] = "returned"]
            /\ ret' = [ret EXCEPT ![c] = final]
            /\ UNCHANGED sleeps

\* fetch() resolved with a response (status, body type) before the timer fired
FetchResponse(c, r) ==
    /\ pc[c] = "fetch"
    /\ last' = [last EXCEPT ![c] = r]
    /\ IF ResponseOk(r.status) \/ ~isRetryableStatus(r.status)
       THEN /\ pc' = [pc EXCEPT ![c] = "returned"]
            /\ ret' = [ret EXCEPT ![c] = Returned(r)]
            /\ UNCHANGED <<attemptsRemaining, sleeps>>
       ELSE retryOrLeave(c, Returned(r))
    /\ UNCHANGED <<coordVars, method, isRetry, joined, epoch, tok, refreshSteps, refreshedBy, outcome,
                   retries, lastError, attempts, priorAttempts, aborts, errVars, apiVars>>

\* the timer of createTimeoutController fired first: controller.abort(), fetch rejects with AbortError
FetchTimeout(c) ==
    /\ pc[c] = "fetch"
    /\ last' = [last EXCEPT ![c] = Aborted]
    /\ aborts' = [aborts EXCEPT ![c] = @ + 1]
    /\ lastError' = [lastError EXCEPT ![c] = fromTimeout]
    /\ retryOrLeave(c, Thrown(lastError'[c]))   \* throw lastError
    /\ UNCHANGED <<coordVars, method, isRetry, joined, epoch, tok, refreshSteps, refreshedBy, outcome,
                   retries, attempts, priorAttempts, errVars, apiVars>>

\* fetch() rejected with anything else (a network error)
FetchNetworkError(c) ==
    /\ pc[c] = "fetch"
    /\ last' = [last EXCEPT ![c] = NetworkFailure]
    /\ lastError' = [lastError EXCEPT ![c] = FetchError]
    /\ retryOrLeave(c, Thrown(fromNetworkError(lastError'[c])))
    /\ UNCHANGED <<coordVars, method, isRetry, joined, epoch, tok, refreshSteps, refreshedBy, outcome,
                   retries, attempts, priorAttempts, aborts, errVars, apiVars>>

\* sleep(retryDelay) is over: `continue`, new controller, next fetch()
SleepDone(c) ==
    /\ pc[c] = "sleep"
    /\ pc' = [pc EXCEPT ![c] = "fetch"]
    /\ attempts' = [attempts EXCEPT ![c] = @ + 1]
    /\ UNCHANGED <<coordVars, method, isRetry, joined, epoch, tok, refreshSteps, refreshedBy, outcome,
                   retries, attemptsRemaining, lastError, last, ret, priorAttempts, aborts, sleeps,
                   errVars, apiVars>>

\* ---------------------------------------------------- token coordinator
\* a cache check that never finds a token
TruthyNever(t) == FALSE

\* a cache test that only looks for null: `if (this.cachedToken !== null)`
TruthyNotNull(t) == t # Null

\* `if (this.cachedToken)`: null and "" are falsy
Truthy(t) == t # Null /\ t # EmptyString

Pending == {"pending"}
\* the provider's promise has settled, the .then/.catch callback of refreshToken has not run yet
Settled == {"settledToken", "settledEmpty", "settledError"}
\* the callback has run: tokenPromise (the derived promise) is resolved or rejected
Done == {"doneToken", "doneEmpty", "doneError"}

Invocations == Len(invState)
Outstanding == {i \in 1..Invocations : invState[i] \in Pending}
CallbacksRun == Cardinality({i \in 1..Invocations : invState[i] \in Done})

\* the token invocation i resolved to: every invocation returns a token of its own, or ""
TokenOf(i) == IF invState[i] \in {"settledEmpty", "doneEmpty"} THEN EmptyString ELSE i

\* refreshToken() without `if (this.tokenPromise) return this.tokenPromise`
refreshTokenAlwaysInvokes(c) ==
    /\ epoch' = [epoch EXCEPT ![c] = CallbacksRun]
    /\ invState' = Append(invState, "pending")
    /\ tokenPromise' = Invocations + 1
    /\ joined' = [joined EXCEPT ![c] = Invocations + 1]

\* refreshToken() that does not keep the promise: `return this.tokenProvider().then(...)`
refreshTokenUnmarked(c) ==
    /\ epoch' = [epoch EXCEPT ![c] = CallbacksRun]
    /\ IF tokenPromise # Null
       THEN /\ joined' = [joined EXCEPT ![c] = tokenPromise]
            /\ UNCHANGED <<tokenPromise, invState>>
       ELSE /\ invState' = Append(invState, "pending")
            /\ tokenPromise' = tokenPromise
            /\ joined' = [joined EXCEPT ![c] = Invocations + 1]

\* refreshToken(): join the refresh in flight, or invoke the provider
refreshToken(c) ==
    /\ epoch' = [epoch EXCEPT ![c] = CallbacksRun]
    /\ IF tokenPromise # Null
       THEN /\ joined' = [joined EXCEPT ![c] = tokenPromise]
            /\ UNCHANGED <<tokenPromise, invState>>
       ELSE /\ invState' = Append(invState, "pending")
            /\ tokenPromise' = Invocations + 1
            /\ joined' = [joined EXCEPT ![c] = Invocations + 1]

\* getToken() that never looks at the cache
getTokenIgnoringCache(c) ==
    /\ refreshToken(c)
    /\ UNCHANGED tok

\* getToken(): the cached token if there is one, else refreshToken()
getToken(c) ==
    IF Truthy(cachedToken)
    THEN /\ tok' = [tok EXCEPT ![c] = cachedToken]
         /\ joined' = [joined EXCEPT ![c] = 0]
         /\ epoch' = [epoch EXCEPT ![c] = 0]
         /\ UNCHANGED <<tokenPromise, invState>>
    ELSE /\ refreshToken(c)
         /\ UNCHANGED tok

\* clearToken()
clearToken == cachedToken' = Null

\* a waiter that reads this.cachedToken when it resumes instead of the promise's value
awaitedTokenFromCache(c) == IF joined[c] = 0 THEN tok[c] ELSE cachedToken

\* the value an awaited getToken()/refreshToken() promise resolves to
awaitedToken(c) == IF joined[c] = 0 THEN tok[c] ELSE TokenOf(joined[c])

\* an await that never resumes
PromiseSettledNever(c) == FALSE

\* an await that resumes without waiting for the promise
PromiseSettledAlways(c) == TRUE

\* the awaited promise has settled
PromiseSettled(c) == IF joined[c] = 0 THEN TRUE ELSE invState[joined[c]] \in Done
\* an await that never sees the rejection of the promise
PromiseRejectedNever(c) == FALSE

PromiseRejected(c) == IF joined[c] = 0 THEN FALSE ELSE invState[joined[c]] = "doneError"

\* the host's provider resolves invocation i with a token (possibly "") or rejects
ProviderSettles(i, how) ==
    /\ i \in 1..Invocations
    /\ invState[i] = "pending"
    /\ invState' = [invState EXCEPT ![i] = how]
    /\ UNCHANGED <<cachedToken, tokenPromise, callVars, fetchVars, errVars, apiVars>>

\* a then callback that throws the token away when the cache was invalidated meanwhile
RefreshThenUnlessInvalidated(i) ==
    /\ i \in 1..Invocations
    /\ invState[i] \in {"settledToken", "settledEmpty"}
    /\ cachedToken' = IF \E c \in Calls : refreshedBy[c] = i THEN cachedToken ELSE TokenOf(i)
    /\ tokenPromise' = Null
    /\ invState' = [invState EXCEPT ![i] = IF @ = "settledEmpty" THEN "doneEmpty" ELSE "doneToken"]
    /\ UNCHANGED <<callVars, fetchVars, errVars, apiVars>>

\* a then callback that caches the token without `this.tokenPromise = null`
RefreshThenKeepingPromise(i) ==
    /\ i \in 1..Invocations
    /\ invState[i] \in {"settledToken", "settledEmpty"}
    /\ cachedToken' = TokenOf(i)
    /\ invState' = [invState EXCEPT ![i] = IF @ = "settledEmpty" THEN "doneEmpty" ELSE "doneToken"]
    /\ UNCHANGED <<tokenPromise, callVars, fetchVars, errVars, apiVars>>

\* .then((token) => { this.cachedToken = token; this.tokenPromise = null; return token; })
\* a then callback without `this.cachedToken = token`
RefreshThenWithoutCaching(i) ==
    /\ i \in 1..Invocations
    /\ invState[i] \in {"settledToken", "settledEmpty"}
    /\ cachedToken' = cachedToken
    /\ tokenPromise' = Null
    /\ invState' = [invState EXCEPT ![i] = IF @ = "settledEmpty" THEN "doneEmpty" ELSE "doneToken"]
    /\ UNCHANGED <<callVars, fetchVars, errVars, apiVars>>

RefreshThen(i) ==
    /\ i \in 1..Invocations
    /\ invState[i] \in {"settledToken", "settledEmpty"}
    /\ cachedToken' = TokenOf(i)
    /\ tokenPromise' = Null
    /\ invState' = [invState EXCEPT ![i] = IF @ = "settledEmpty" THEN "doneEmpty" ELSE "doneToken"]
    /\ UNCHANGED <<callVars, fetchVars, errVars, apiVars>>

\* a catch callback that rethrows without `this.tokenPromise = null`
RefreshCatchKeepingPromise(i) ==
    /\ i \in 1..Invocations
    /\ invState[i] = "settledError"
    /\ invState' = [invState EXCEPT ![i] = "doneError"]
    /\ UNCHANGED <<tokenPromise, cachedToken, callVars, fetchVars, errVars, apiVars>>

\* .catch((error) => { this.tokenPromise = null; throw error; })
RefreshCatch(i) ==
    /\ i \in 1..Invocations
    /\ invState[i] = "settledError"
    /\ tokenPromise' = Null
    /\ invState' = [invState EXCEPT ![i] = "doneError"]
    /\ UNCHANGED <<cachedToken, callVars, fetchVars, errVars, apiVars>>

\* ------------------------------------------------------------ API client
NotSettled == [kind |-> "pending", code |-> "NONE", status |-> 0]
\* the call resolved with the parsed JSON body
ResolvedJson == [kind |-> "value", code |-> "NONE", status |-> 0]
\* the call resolved with undefined
ResolvedUndefined == [kind |-> "undefined", code |-> "NONE", status |-> 0]
\* the call rejected with a VenalabsApiError
Rejected(e) == [kind |-> "apiError", code |-> e.code, status |-> e.status]
\* the call rejected with whatever the token provider rejected with
ProviderError == [kind |-> "providerError", code |-> "NONE", status |-> 0]
\* the call rejected with the SyntaxError of response.json()
ParseError == [kind |-> "parseError", code |-> "NONE", status |-> 0]

\* the call resolved with null
ResolvedNull == [kind |-> "null", code |-> "NONE", status |-> 0]
\* the operation rejected with new Error('<name> is required')
ValidationError(name) == [kind |-> "validationError", code |-> name, status |-> 0]

\* response bodies that are JSON documents: "json" stands for an object, "[]" and "[m1]"
\* are arrays of maps
JsonBodies == {"json", "[]", "[m1]"}

\* the values the backend answers with: an object, no maps, one map
Documents == {<<"object">>, <<>>, <<"m1">>}

\* HttpResponse.json(value) on the backend: the JSON text of a value
JSONtext(d) ==
    CASE d = <<>> -> "[]"
      [] d = <<"m1">> -> "[m1]"
      [] OTHER -> "json"

\* a response.json() that loses the elements of an array
JSONparseLosingElements(text) ==
    CASE text = "[]" -> <<>>
      [] text = "[m1]" -> <<>>
      [] OTHER -> <<"object">>

\* response.json(): the value a JSON document parses to
JSONparse(text) ==
    CASE text = "[]" -> <<>>
      [] text = "[m1]" -> <<"m1">>
      [] OTHER -> <<"object">>

\* `return response.json()`
responseJson(r) == IF r.body \in JsonBodies THEN ResolvedJson ELSE ParseError

\* the success path of get() and of post()
parseSuccess(m, r) ==
    IF m = "POST" /\ (r.status = 204 \/ r.body = "empty0")
    THEN ResolvedUndefined
    ELSE responseJson(r)

\* a 401 branch that also takes 403 for a failure of the credential
shouldRefreshOnForbidden(status, retry) == status \in {401, 403} /\ ~retry

\* a client that also refreshes and resends on a server error
shouldRefreshOnServerError(status, retry) == (status = 401 \/ status >= 500) /\ ~retry

\* the 401 branch without `&& !isRetry`
shouldRefreshAlways(status, retry) == status = 401

\* `response.status === 401 && !isRetry`
shouldRefresh(status, retry) == status = 401 /\ ~retry

\* the operations issued on the client alternate between get() and post()
MethodOf(c) == IF c % 2 = 1 THEN "GET" ELSE "POST"

\* ------------------------------------------------------ public operations
GetOps == {"getMaps", "getCourse", "getProgress", "getCourseProgress", "getWalletNonce",
           "getLinkedWallets", "getNftVoucher"}
PostOps == {"startCourse", "completeStep", "linkStellarWallet", "verifyStep", "verifyNftMint"}
Ops == GetOps \cup PostOps

\* this.get(...) or this.post(...)
MethodOfOp(o) == IF o \in GetOps THEN "GET" ELSE "POST"

\* the required identifier arguments of each operation, in the order they are checked
RequiredArgs(o) ==
    CASE o \in {"getCourse", "startCourse", "getCourseProgress"} -> <<"courseId">>
      [] o \in {"completeStep", "verifyStep", "getNftVoucher"} -> <<"courseId", "stepId">>
      [] o = "getWalletNonce" -> <<"walletAddress">>
      [] o = "linkStellarWallet" -> <<"walletAddress", "signature">>
      [] o = "verifyNftMint" -> <<"courseId", "stepId", "txHash">>
      [] OTHER -> <<>>

\* identifier values: empty, plain, and one with a character encodeURIComponent escapes
Ids == {"", "c1", "a/b"}

\* request objects: undefined, or an object given as its fields
NoRequest == [present |-> FALSE, fields |-> <<>>]
QuizAnswer == [present |-> TRUE, fields |-> << <<"selectedOptionIndex", "2">> >>]

\* completeStep(courseId, stepId, request?) alone takes a request from its caller
Requests(o) == IF o = "completeStep" THEN {NoRequest, QuizAnswer} ELSE {NoRequest}

NoArgs == [ids |-> <<>>, request |-> NoRequest]
ArgsOf(o) == {[ids |-> i, request |-> r] : i \in [1..Len(RequiredArgs(o)) -> Ids], r \in Requests(o)}

\* an operation whose `if (!<name>)` checks are missing
validateNothing(o, a) == "ok"

\* the `if (!<name>) throw new Error('<name> is required')` checks: the first name that fails
validate(o, a) ==
    LET empties == {i \in 1..Len(RequiredArgs(o)) : a.ids[i] = ""} IN
    IF empties = {}
    THEN "ok"
    ELSE RequiredArgs(o)[CHOOSE i \in empties : \A j \in empties : i <= j]

encodeURIComponent(s) == IF s = "a/b" THEN "a%2Fb" ELSE s

\* the endpoint each operation passes to get/post, as the pieces of the template string
endpointOf(o, a) ==
    LET e(i) == encodeURIComponent(a.ids[i]) IN
    CASE o = "getMaps" -> <<"/maps">>
      [] o = "getCourse" -> <<"/courses/", e(1)>>
      [] o = "startCourse" -> <<"/courses/", e(1), "/start">>
      [] o = "completeStep" -> <<"/courses/", e(1), "/steps/", e(2), "/complete">>
      [] o = "getProgress" -> <<"/progress">>
      [] o = "getCourseProgress" -> <<"/progress/", e(1)>>
      [] o = "getWalletNonce" -> <<"/wallet/nonce?walletAddress=", e(1)>>
      [] o = "linkStellarWallet" -> <<"/wallet/stellar/link">>
      [] o = "getLinkedWallets" -> <<"/wallet">>
      [] o = "verifyStep" -> <<"/courses/", e(1), "/steps/", e(2), "/verify">>
      [] o = "getNftVoucher" -> <<"/courses/", e(1), "/steps/", e(2), "/nft-voucher">>
      [] o = "verifyNftMint" -> <<"/courses/", e(1), "/steps/", e(2), "/nft-verify">>

\* the body each operation passes to post
bodyOf(o, a) ==
    CASE o = "completeStep" -> a.request
      [] o = "linkStellarWallet" ->
            [present |-> TRUE,
             fields |-> << <<"walletAddress", a.ids[1]>>, <<"signature", a.ids[2]>> >>]
      [] o = "verifyNftMint" -> [present |-> TRUE, fields |-> << <<"txHash", a.ids[3]>> >>]
      [] OTHER -> NoRequest

\* JSON.stringify(body): the document with the object's fields
JSONstringify(b) == [present |-> TRUE, json |-> b.fields]
NoBody == [present |-> FALSE, json |-> <<>>]

\* `${this.baseUrl}/api/v1/sdk${endpoint}`, the base URL left out
url(e) == <<"/api/v1/sdk">> \o e

\* `Bearer ${token}`
Bearer(t) == <<"Bearer ", t>>

\* headers whose Authorization is built from the cache instead of the awaited token
getHeadersFromCache(t) ==
    [ContentType |-> "application/json", XApiKey |-> config.apiKey, Authorization |-> Bearer(cachedToken)]

\* the object getHeaders() builds from the awaited token
getHeaders(t) ==
    [ContentType |-> "application/json", XApiKey |-> config.apiKey, Authorization |-> Bearer(t)]

NoOptions ==
    [method |-> "NONE", url |-> <<>>,
     headers |-> [ContentType |-> "", XApiKey |-> "", Authorization |-> <<"", Null>>],
     body |-> NoBody]

\* the url and RequestInit get/post hand to fetchWithRetry
requestInit(m, e, b, h) ==
    [method |-> m, url |-> url(e), headers |-> h,
     body |-> IF m = "POST" /\ b.present THEN JSONstringify(b) ELSE NoBody]

\* a fetch whose Authorization header is built anew from the cache at every attempt
fetchInitFromCache(c) == [options[c] EXCEPT !.headers.Authorization = Bearer(cachedToken)]

\* fetch(url, {...options, signal}): the request of the attempt of call c that is in
\* flight, the abort signal left out
fetchInit(c) == options[c]

\* a recursive call that passes the endpoint on and forgets the body
resendArgsWithoutBody(e, b) == [endpoint |-> e, body |-> NoRequest]

\* the arguments of the recursive call: this.get(endpoint, true) / this.post(endpoint, body, true)
resendArgs(e, b) == [endpoint |-> e, body |-> b]

\* a getCourseProgress whose catch returns null for every VenalabsApiError
opSettleSwallowingAll(o, out) ==
    IF o = "getCourseProgress" /\ out.kind = "apiError"
    THEN ResolvedNull
    ELSE IF o \in {"startCourse", "verifyNftMint"} /\ out.kind = "value"
         THEN ResolvedUndefined
         ELSE out

\* what the operation makes of the outcome of its get/post: getCourseProgress turns a
\* NOT_FOUND error into null; startCourse and verifyNftMint drop the value
opSettle(o, out) ==
    IF o = "getCourseProgress" /\ out.kind = "apiError" /\ out.code = "NOT_FOUND"
    THEN ResolvedNull
    ELSE IF o \in {"startCourse", "verifyNftMint"} /\ out.kind = "value"
         THEN ResolvedUndefined
         ELSE out

\* get(endpoint) / post(endpoint, body) is called: getHeaders() -> getToken() run synchronously
Call(c, m) ==
    /\ pc[c] = "idle"
    /\ method' = [method EXCEPT ![c] = m]
    /\ getToken(c)
    /\ pc' = [pc EXCEPT ![c] = "awaitHeaders"]
    /\ UNCHANGED <<cachedToken, isRetry, refreshSteps, refreshedBy, outcome, fetchVars, errVars>>

\* a public operation is called on the client: it rejects on an empty required argument,
\* otherwise it calls get/post with its endpoint (and body)
operation(c, o, a) ==
    /\ client = "constructed"
    /\ pc[c] = "idle"
    /\ op' = [op EXCEPT ![c] = o]
    /\ args' = [args EXCEPT ![c] = a]
    /\ IF validate(o, a) # "ok"
       THEN /\ pc' = [pc EXCEPT ![c] = "done"]
            /\ outcome' = [outcome EXCEPT ![c] = ValidationError(validate(o, a))]
            /\ UNCHANGED <<coordVars, method, isRetry, joined, epoch, tok, refreshSteps, refreshedBy,
                           fetchVars, errVars, endpoint, reqBody>>
       ELSE /\ endpoint' = [endpoint EXCEPT ![c] = endpointOf(o, a)]
            /\ reqBody' = [reqBody EXCEPT ![c] = bodyOf(o, a)]
            /\ Call(c, MethodOfOp(o))
    /\ UNCHANGED <<options, value, ctorVars>>

\* an application calls a public operation; the calls it makes alternate between the
\* operations that get and the operations that post
Invoke(c, o, a) ==
    /\ validate(o, a) = "ok" => MethodOfOp(o) = MethodOf(c)
    /\ operation(c, o, a)
    /\ UNCHANGED memoVars

\* `await this.getHeaders()` resumes: the call rejects with the provider's error, or
\* fetchWithRetry starts with the Authorization header built from the awaited token
SendRequest(c) ==
    /\ pc[c] = "awaitHeaders"
    /\ PromiseSettled(c)
    /\ IF PromiseRejected(c)
       THEN /\ pc' = [pc EXCEPT ![c] = "done"]
            /\ outcome' = [outcome EXCEPT ![c] = ProviderError]
            /\ tok' = [tok EXCEPT ![c] = Null]
            /\ UNCHANGED <<attemptsRemaining, lastError, last, ret, attempts, priorAttempts, sleeps, options>>
       ELSE /\ tok' = [tok EXCEPT ![c] = awaitedToken(c)]
            /\ options' = [options EXCEPT ![c] =
                  requestInit(method[c], endpoint[c], reqBody[c], getHeaders(awaitedToken(c)))]
            /\ fetchWithRetry(c)
            /\ UNCHANGED outcome
    /\ UNCHANGED <<coordVars, method, isRetry, joined, epoch, refreshSteps, refreshedBy, retries, aborts, errVars,
                   opVars, value, ctorVars, memoVars>>

\* `await fetchWithRetry(...)` resumes in get()/post()
HandleResponse(c) ==
    /\ pc[c] = "returned"
    /\ IF ret[c].kind = "response" /\ shouldRefresh(ret[c].status, isRetry[c])
       THEN \* this.clearToken(); await this.refreshToken();
            /\ clearToken
            /\ refreshToken(c)
            /\ refreshSteps' = [refreshSteps EXCEPT ![c] = @ + 1]
            /\ refreshedBy' = [refreshedBy EXCEPT ![c] = joined'[c]]
            /\ pc' = [pc EXCEPT ![c] = "awaitRefresh"]
            /\ UNCHANGED <<outcome, tok, value>>
       ELSE /\ pc' = [pc EXCEPT ![c] = "done"]
            \* get/post settles, then the operation that awaited it
            /\ outcome' = [outcome EXCEPT ![c] = opSettle(op[c],
                  IF ret[c].kind = "throw" THEN Rejected(ret[c])
                  ELSE IF ~ResponseOk(ret[c].status)
                       THEN Rejected(fromResponse(ret[c].status, ret[c].type))
                       ELSE parseSuccess(method[c], ret[c]))]
            /\ value' = [value EXCEPT ![c] =
                  IF outcome'[c].kind = "value" THEN JSONparse(ret[c].body) ELSE <<>>]
            /\ tok' = [tok EXCEPT ![c] = Null]
            /\ joined' = [joined EXCEPT ![c] = 0]
            /\ epoch' = [epoch EXCEPT ![c] = 0]
            /\ UNCHANGED <<coordVars, refreshSteps, refreshedBy>>
    \* the locals of the fetchWithRetry invocation that returned are gone
    /\ attemptsRemaining' = [attemptsRemaining EXCEPT ![c] = 0]
    /\ lastError' = [lastError EXCEPT ![c] = NullError]
    /\ last' = [last EXCEPT ![c] = NoAttempt]
    /\ ret' = [ret EXCEPT ![c] = NoReturn]
    /\ options' = [options EXCEPT ![c] = NoOptions]
    /\ UNCHANGED <<method, isRetry, retries, attempts, priorAttempts, aborts, sleeps, errVars,
                   opVars, ctorVars, memoVars>>

\* `await this.refreshToken()` resumes: the call rejects with the provider's error, or
\* calls this.get(endpoint, true) / this.post(endpoint, body, true)
Resend(c) ==
    /\ pc[c] = "awaitRefresh"
    /\ PromiseSettled(c)
    /\ IF PromiseRejected(c)
       THEN /\ pc' = [pc EXCEPT ![c] = "done"]
            /\ outcome' = [outcome EXCEPT ![c] = ProviderError]
            /\ tok' = [tok EXCEPT ![c] = Null]
            /\ UNCHANGED <<coordVars, isRetry, joined, epoch, endpoint, reqBody>>
       ELSE /\ isRetry' = [isRetry EXCEPT ![c] = TRUE]
            /\ endpoint' = [endpoint EXCEPT ![c] = resendArgs(endpoint[c], reqBody[c]).endpoint]
            /\ reqBody' = [reqBody EXCEPT ![c] = resendArgs(endpoint[c], reqBody[c]).body]
            /\ getToken(c)
            /\ pc' = [pc EXCEPT ![c] = "awaitHeaders"]
            /\ UNCHANGED <<cachedToken, outcome>>
    /\ UNCHANGED <<method, refreshSteps, refreshedBy, fetchVars, errVars, op, args, options, value, ctorVars, memoVars>>

\* the responses the backend gives one logical call at a time
SoloResponses ==
    {HttpResponse(200, "NONE", "json"), HttpResponse(204, "NONE", "empty"),
     HttpResponse(200, "NONE", "[]"), HttpResponse(200, "NONE", "[m1]"),
     HttpResponse(200, "NONE", "empty0"), HttpResponse(200, "NONE", "empty"),
     HttpResponse(401, "TOKEN_EXPIRED", "json"), HttpResponse(401, "NONE", "empty"),
     HttpResponse(400, "NONE", "json"),
     HttpResponse(403, "NONE", "json"), HttpResponse(404, "NONE", "json"),
     HttpResponse(429, "NONE", "json"), HttpResponse(500, "NONE", "json")}

\* the responses the backend gives concurrent logical calls
ClientResponses ==
    {HttpResponse(200, "NONE", "json"), HttpResponse(401, "TOKEN_EXPIRED", "json"),
     HttpResponse(401, "NONE", "empty"), HttpResponse(404, "NONE", "json"),
     HttpResponse(500, "NONE", "json")}

InitCoordinator ==
    /\ cachedToken = Null
    /\ tokenPromise = Null
    /\ invState = <<>>

InitCalls ==
    /\ pc = [c \in Calls |-> "idle"]
    /\ method = [c \in Calls |-> "GET"]
    /\ isRetry = [c \in Calls |-> FALSE]
    /\ joined = [c \in Calls |-> 0]
    /\ epoch = [c \in Calls |-> 0]
    /\ tok = [c \in Calls |-> Null]
    /\ refreshSteps = [c \in Calls |-> 0]
    /\ refreshedBy = [c \in Calls |-> 0]
    /\ outcome = [c \in Calls |-> NotSettled]
    /\ attemptsRemaining = [c \in Calls |-> 0]
    /\ lastError = [c \in Calls |-> NullError]
    /\ last = [c \in Calls |-> NoAttempt]
    /\ ret = [c \in Calls |-> NoReturn]
    /\ attempts = [c \in Calls |-> 0]
    /\ priorAttempts = [c \in Calls |-> 0]
    /\ aborts = [c \in Calls |-> 0]
    /\ sleeps = [c \in Calls |-> <<>>]

\* new Map<string, VenalabsCourse>()
NoCourses == [k \in {} |-> <<>>]
\* what the provider's getCourse returns: a course, or null
NotLoaded == [kind |-> "none", course |-> <<>>]
Course(d) == [kind |-> "course", course |-> d]
NullCourse == [kind |-> "null", course |-> <<>>]

\* error state null; linkedWalletAddress null
NoSdkError == [kind |-> "null", code |-> "NONE", status |-> 0]
NullAddress == "null"

\* the API key and the provider of a valid configuration
ValidConfig == [apiKey |-> "key", getAccessToken |-> "provider"]

InitApi ==
    /\ op = [c \in Calls |-> "none"]
    /\ args = [c \in Calls |-> NoArgs]
    /\ endpoint = [c \in Calls |-> <<>>]
    /\ reqBody = [c \in Calls |-> NoRequest]
    /\ options = [c \in Calls |-> NoOptions]
    /\ value = [c \in Calls |-> <<>>]
    /\ courseCache = NoCourses
    /\ loadPc = [c \in Calls |-> "none"]
    /\ loadId = [c \in Calls |-> ""]
    /\ loaded = [c \in Calls |-> NotLoaded]
    /\ instance = 1
    /\ courseOwner = [k \in {} |-> 0]
    /\ maps = <<>>
    /\ progress = <<>>
    /\ loading = TRUE
    /\ errorState = NoSdkError
    /\ linkedWalletAddress = NullAddress
    /\ initPc = "mounted"
    /\ refreshPc = [f \in {"maps", "progress"} |-> "none"]
    /\ walletPc = "none"

\* new VenalabsApiClient(ValidConfig) has returned
InitConstructed ==
    /\ config = ValidConfig
    /\ client = "constructed"
    /\ ctorError = "none"

NoErrIn == [src |-> "none", code |-> "NONE", status |-> 0, type |-> "NONE"]
NoErrOut ==
    [stage |-> "none", code |-> "NONE", status |-> 0, auth |-> FALSE, retryable |-> FALSE, retried |-> FALSE]

\* a client constructed with a valid config, no call made yet
Init ==
    /\ InitCoordinator
    /\ InitCalls
    /\ InitApi
    /\ InitConstructed
    /\ retries = CLIENT_RETRIES
    /\ errIn = NoErrIn
    /\ errOut = NoErrOut
    /\ faults = 0

\* a step of the environment that deviates from the plain course
Fault(A) == faults < MaxFaults /\ faults' = faults + 1 /\ A
\* any other step
NoFault(A) == faults' = faults /\ A

PlainResponse == HttpResponse(200, "NONE", "json")

\* the operations concurrent calls invoke: getMaps() and completeStep(courseId, stepId, request)
PlainOp(c) == IF MethodOf(c) = "GET" THEN "getMaps" ELSE "completeStep"
PlainArgs(c) ==
    IF MethodOf(c) = "GET" THEN NoArgs ELSE [ids |-> <<"c1", "a/b">>, request |-> QuizAnswer]

Next ==
    \/ \E c \in Calls : NoFault(Invoke(c, PlainOp(c), PlainArgs(c)))
    \/ \E c \in Calls : NoFault(SendRequest(c))
    \/ \E c \in Calls : NoFault(FetchResponse(c, PlainResponse))
    \/ \E c \in Calls, r \in ClientResponses \ {PlainResponse} : Fault(FetchResponse(c, r))
    \/ \E c \in Calls : Fault(FetchTimeout(c))
    \/ \E c \in Calls : Fault(FetchNetworkError(c))
    \/ \E c \in Calls : NoFault(SleepDone(c))
    \/ \E c \in Calls : NoFault(HandleResponse(c))
    \/ \E c \in Calls : NoFault(Resend(c))
    \/ \E i \in 1..Invocations : NoFault(ProviderSettles(i, "settledToken"))
    \/ \E i \in 1..Invocations, how \in {"settledEmpty", "settledError"} : Fault(ProviderSettles(i, how))
    \/ \E i \in 1..Invocations : NoFault(RefreshThen(i))
    \/ \E i \in 1..Invocations : NoFault(RefreshCatch(i))

Spec == Init /\ [][Next]_vars

\* C1: single-flight refresh.  Callers that need a token while none is cached join the one
\* provider invocation of the current refresh episode: a new invocation is made only after
\* the callback of the previous one has run; a waiting caller awaits exactly the invocation
\* that follows the callbacks run before it arrived; when it resumes it carries the token
\* that invocation resolved to, and it rejects with the provider's error only if that
\* invocation rejected.
C1_SingleFlight ==
    /\ Invocations <= CallbacksRun + 1
    /\ \A c \in Calls :
        /\ (pc[c] \in {"awaitHeaders", "awaitRefresh"} /\ joined[c] # 0) =>
              /\ joined[c] \in 1..Invocations
              /\ joined[c] = epoch[c] + 1
        /\ (pc[c] \in {"fetch", "sleep", "returned"} /\ joined[c] # 0) =>
              /\ invState[joined[c]] \in {"doneToken", "doneEmpty"}
              /\ tok[c] = TokenOf(joined[c])
        /\ (pc[c] = "done" /\ outcome[c] = ProviderError) =>
              /\ joined[c] # 0
              /\ invState[joined[c]] = "doneError"

\* all the calls arrived before the first invocation's callback ran, the provider was
\* invoked once and every call sends its request with that invocation's token
C1_Witness ==
    /\ Invocations = 1
    /\ \A c \in Calls : pc[c] = "fetch" /\ joined[c] = 1 /\ tok[c] = 1 /\ ~isRetry[c]

\* C2: at any instant at most one provider invocation is outstanding.
C2_OneOutstanding == Cardinality(Outstanding) <= 1

\* a refresh forced by a 401 is outstanding, one call awaits it to resend and another call
\* that found the cache empty has joined it
C2_Witness ==
    \E c, d \in Calls :
        /\ c # d
        /\ pc[c] = "awaitRefresh" /\ pc[d] = "awaitHeaders"
        /\ joined[c] = 2 /\ joined[d] = 2
        /\ Outstanding = {2}

\* C4: a logical call takes the refresh-and-resend step at most once.  A 401 answer to
\* the resend makes the call reject with an authentication error (INVALID_TOKEN or
\* TOKEN_EXPIRED, status 401) in the very step that handles it, without invoking the
\* provider, clearing the cache or sending again; and a call only ever ends with a 401
\* error after its one refresh and resend.
C4_Refused(c) ==
    /\ pc[c] = "done"
    /\ outcome[c].kind = "apiError"
    /\ outcome[c].status = 401

C4_State ==
    \A c \in Calls :
        /\ refreshSteps[c] <= 1
        /\ isRetry[c] => refreshSteps[c] = 1
        /\ C4_Refused(c) =>
              /\ isRetry[c]
              /\ outcome[c].code \in {"INVALID_TOKEN", "TOKEN_EXPIRED"}
              /\ isAuthError(outcome[c])

C4_Step ==
    \A c \in Calls :
        (/\ pc[c] = "returned" /\ isRetry[c]
         /\ ret[c].kind = "response" /\ ret[c].status = 401
         /\ pc'[c] # pc[c])
        => /\ C4_Refused(c)'
           /\ outcome'[c].code = (IF ret[c].type = "TOKEN_EXPIRED" THEN "TOKEN_EXPIRED" ELSE "INVALID_TOKEN")
           /\ UNCHANGED <<coordVars, refreshSteps, attempts, priorAttempts>>

C4_SecondUnauthorized == []C4_State /\ [][C4_Step]_vars

\* a call whose resend was answered 401 has rejected
C4_Witness ==
    \E c \in Calls : C4_Refused(c) /\ isRetry[c] /\ refreshSteps[c] = 1 /\ priorAttempts[c] >= 1

\* no response with status 401 has reached get/post so far
C19_NoUnauthorized == \A c \in Calls : refreshSteps[c] = 0

C19_State ==
    C19_NoUnauthorized =>
        \A i \in 1..Invocations :
            invState[i] \in {"settledToken", "doneToken"} => Invocations = i

\* getToken() called while a non-empty token is cached returns it and leaves the provider
\* alone; called while "" is cached it goes to refreshToken()
C19_Step ==
    \A c \in Calls :
        (pc[c] \in {"idle", "awaitRefresh"} /\ pc'[c] = "awaitHeaders") =>
            /\ (cachedToken \notin {Null, EmptyString}) =>
                  /\ invState' = invState
                  /\ tokenPromise' = tokenPromise
                  /\ joined'[c] = 0
                  /\ tok'[c] = cachedToken
            /\ (cachedToken = EmptyString /\ tokenPromise = Null) =>
                  /\ invState' = Append(invState, "pending")
                  /\ joined'[c] = Invocations + 1

C20_FailedWaiter(c) ==
    /\ pc[c] \in {"awaitHeaders", "awaitRefresh"}
    /\ joined[c] # 0
    /\ invState[joined[c]] = "doneError"

C20_State ==
    \* a failed invocation is not the refresh marked in flight
    /\ \A i \in 1..Invocations : invState[i] = "doneError" => tokenPromise # i
    \* after the failure of the latest invocation the cache holds no credential and no
    \* refresh is in flight
    /\ (Invocations > 0 /\ invState[Invocations] = "doneError") =>
          /\ tokenPromise = Null
          /\ cachedToken \in {Null, EmptyString}
    \* a call rejects with the provider's error only when an invocation has failed
    /\ \A c \in Calls :
          (pc[c] = "done" /\ outcome[c] = ProviderError) =>
              \E i \in 1..Invocations : invState[i] = "doneError"

C20_Step ==
    /\ \A i \in 1..Invocations :
          \* the catch callback of the failed invocation
          (invState[i] = "settledError" /\ invState'[i] = "doneError") =>
              /\ tokenPromise' = Null
              /\ cachedToken' = cachedToken
              /\ cachedToken \in {Null, EmptyString}
    /\ \A c \in Calls :
          \* every waiter of the failed invocation receives the rejection and sends nothing
          /\ (C20_FailedWaiter(c) /\ pc'[c] # pc[c]) =>
                /\ pc'[c] = "done"
                /\ outcome'[c] = ProviderError
                /\ attempts'[c] = attempts[c]
                /\ invState' = invState
          \* the next getToken() starts a new invocation
          /\ (/\ pc[c] \in {"idle", "awaitRefresh"} /\ pc'[c] = "awaitHeaders"
              /\ Invocations > 0
              /\ invState[Invocations] = "doneError") =>
                /\ invState' = Append(invState, "pending")
                /\ tokenPromise' = Invocations + 1
                /\ joined'[c] = Invocations + 1

\* C20: when the provider invocation fails, every caller waiting on that refresh receives
\* the provider's rejection, the cache stays empty, no refresh remains marked in flight,
\* and the next getToken() starts a new provider invocation.
C20_ProviderFailure == []C20_State /\ [][C20_Step]_vars

\* the first invocation failed under one waiter, which rejected with the provider's
\* error; the getToken() of the next call started the second invocation
C20_Witness ==
    \E c, d \in Calls :
        /\ pc[c] = "done" /\ outcome[c] = ProviderError /\ attempts[c] = 0
        /\ invState = <<"doneError", "pending">>
        /\ pc[d] = "awaitHeaders" /\ joined[d] = 2
        /\ tokenPromise = 2
        /\ cachedToken = Null

\* call c awaits, in its 401 branch, a refresh whose provider invocation failed
C33_FailedRefresh(c) ==
    /\ pc[c] = "awaitRefresh"
    /\ invState[joined[c]] = "doneError"

C33_State ==
    \A c \in Calls :
        (pc[c] = "done" /\ refreshedBy[c] # 0 /\ invState[refreshedBy[c]] = "doneError") =>
            /\ outcome[c] = ProviderError
            /\ ~isRetry[c]
            /\ priorAttempts[c] = 0
            /\ attempts[c] \in 1..(CLIENT_RETRIES + 1)

C33_Step ==
    /\ \A c \in Calls :
          (C33_FailedRefresh(c) /\ pc'[c] # pc[c]) =>
              /\ pc'[c] = "done"
              /\ outcome'[c] = ProviderError
              /\ ~isRetry'[c]
              /\ attempts'[c] = attempts[c] /\ priorAttempts'[c] = 0
              /\ UNCHANGED coordVars
    /\ \A i \in 1..Invocations :
          (/\ invState[i] = "settledError" /\ invState'[i] = "doneError"
           /\ \E c \in Calls : pc[c] = "awaitRefresh" /\ joined[c] = i) =>
              (cachedToken' = Null /\ tokenPromise' = Null)

\* C33: when the provider fails during the refresh a 401 forced, the call rejects with the
\* provider's error without a resend (the HTTP attempts made are those of the first send),
\* and the failure leaves the cache empty and no refresh marked in flight.
C33_RefreshFailureAfter401 == []C33_State /\ [][C33_Step]_vars

\* a call answered 401 at its only attempt rejected with the error of the second provider
\* invocation; the cache is empty and no refresh is in flight
C33_Witness ==
    \E c \in Calls :
        /\ pc[c] = "done" /\ outcome[c] = ProviderError
        /\ refreshSteps[c] = 1 /\ refreshedBy[c] = 2
        /\ attempts[c] = 1 /\ priorAttempts[c] = 0
        /\ invState = <<"doneToken", "doneError">>
        /\ cachedToken = Null /\ tokenPromise = Null

\* the 401 responses to first sends the calls 1..n have handled so far
RECURSIVE C34_Unauthorized(_)
C34_Unauthorized(n) == IF n = 0 THEN 0 ELSE refreshSteps[n] + C34_Unauthorized(n - 1)

\* every provider invocation so far is pending or has succeeded with a non-empty token
C34_ProviderSucceeds ==
    \A i \in 1..Invocations : invState[i] \in {"pending", "settledToken", "doneToken"}

\* C34: under any interleaving of the calls on one client whose provider always succeeds
\* with a non-empty token, the provider has been invoked at most once more than the number
\* of 401 responses to first sends.
C34_InvocationBound ==
    C34_ProviderSucceeds => Invocations <= 1 + C34_Unauthorized(NumCalls)

\* two concurrent calls were both answered 401 at their first send and both have settled:
\* three successful provider invocations, the bound is met
C34_Witness ==
    /\ \A c \in Calls : pc[c] = "done" /\ refreshSteps[c] = 1
    /\ invState = <<"doneToken", "doneToken", "doneToken">>

C36_State ==
    \A c \in Calls :
        pc[c] = "fetch" => fetchInit(c).headers.Authorization = Bearer(tok[c])

C36_Step ==
    \A c \in Calls :
        (pc[c] \in {"fetch", "sleep"} /\ pc'[c] \in {"fetch", "sleep"}) =>
            (tok'[c] = tok[c] /\ options'[c] = options[c])

\* C36: every attempt of one fetchWithRetry invocation carries the Authorization built from
\* the token the call held when the send started; between the attempts neither that token
\* nor the request changes, whatever happens to the cache meanwhile.
C36_AttemptsCarryCapturedToken == []C36_State /\ [][C36_Step]_vars

\* the second attempt of a send is in flight with the first token while a concurrent call,
\* answered 401, has had the first token dropped and the second one cached
C36_Witness ==
    \E c \in Calls :
        /\ pc[c] = "fetch" /\ attempts[c] = 2
        /\ tok[c] = 1 /\ fetchInit(c).headers.Authorization = Bearer(1)
        /\ cachedToken = 2
        /\ \E d \in Calls : refreshedBy[d] = 2

\* C39: the refresh-in-flight marker is set exactly while a provider invocation is
\* outstanding, i.e. started and with its then/catch callback (which settles tokenPromise)
\* not yet run: tokenPromise is that invocation, every other invocation is over, and once
\* the callback of an invocation has run the marker does not name it any more.
C39_MarkerIffOutstanding ==
    /\ tokenPromise # Null <=> \E i \in 1..Invocations : invState[i] \notin Done
    /\ tokenPromise # Null =>
          /\ tokenPromise \in 1..Invocations
          /\ invState[tokenPromise] \notin Done
          /\ \A j \in 1..Invocations : j # tokenPromise => invState[j] \in Done
    /\ \A i \in 1..Invocations : invState[i] \in Done => tokenPromise # i

\* the first invocation succeeded and its token was dropped after a 401; the second
\* invocation is in flight and marked
C39_Witness ==
    /\ invState = <<"doneToken", "pending">>
    /\ tokenPromise = 2
    /\ cachedToken = Null
    /\ \E c \in Calls : pc[c] = "awaitRefresh" /\ joined[c] = 2

\* the tokens the provider of this client has returned so far
C16_ProviderTokens ==
    {TokenOf(i) : i \in {j \in 1..Invocations :
                            invState[j] \in {"settledToken", "settledEmpty", "doneToken", "doneEmpty"}}}

\* C16: every HTTP attempt the client sends (first send, transport retry, resend after a
\* 401) carries X-Api-Key equal to the configured API key, Content-Type application/json
\* and Authorization equal to "Bearer " followed by a token the provider of this client
\* returned.
C16_Headers ==
    \A c \in Calls :
        pc[c] = "fetch" =>
            /\ fetchInit(c).headers.XApiKey = config.apiKey
            /\ fetchInit(c).headers.ContentType = "application/json"
            /\ fetchInit(c).headers.Authorization[1] = "Bearer "
            /\ fetchInit(c).headers.Authorization[2] \in C16_ProviderTokens

\* the second attempt of a resend is in flight, with the token of the second invocation
C16_Witness ==
    \E c \in Calls :
        /\ pc[c] = "fetch" /\ isRetry[c] /\ attempts[c] = 2
        /\ fetchInit(c).headers.Authorization = <<"Bearer ", 2>>
        /\ fetchInit(c).headers.XApiKey = "key"

\* C21: a cached credential is dropped only when a request that carried that same
\* credential is rejected with 401: the 401 of a request sent with an older credential
\* never drops a newer credential that has been cached since.
C21_DropsOnlyTheRejected ==
    [][\A c \in Calls :
          (/\ pc[c] = "returned" /\ pc'[c] = "awaitRefresh"
           /\ tok[c] # EmptyString
           /\ cachedToken # Null /\ cachedToken' = Null) =>
              cachedToken = tok[c]]_vars

\* C22: whenever a request is rejected with 401 the credential it carried is invalidated:
\* once get/post has dealt with the 401, on the first send or on the resend, that
\* credential is no longer the cached one.
C22_RejectedIsInvalidated ==
    [][\A c \in Calls :
          (pc[c] = "returned" /\ pc'[c] # "returned" /\ ret[c].kind = "response" /\ ret[c].status = 401) =>
              cachedToken' # tok[c]]_vars

\* the refresh call c awaits has resolved with a token
C23_Resolved(c) == joined[c] = 0 \/ invState[joined[c]] \in {"doneToken", "doneEmpty"}

C23_Step ==
    \A c \in Calls :
        pc'[c] # pc[c] =>
            \* get-credential
            /\ pc[c] = "idle" => pc'[c] = "awaitHeaders"
            \* send, once the credential is there
            /\ pc[c] = "awaitHeaders" =>
                  \/ pc'[c] = "fetch" /\ C23_Resolved(c) /\ attempts'[c] = 1
                  \/ pc'[c] = "done" /\ ~C23_Resolved(c) /\ outcome'[c] = ProviderError
            /\ pc[c] = "fetch" => pc'[c] \in {"sleep", "returned"}
            /\ pc[c] = "sleep" => pc'[c] = "fetch"
            \* on a 401 of the first send: invalidate, then request the refresh; else finalize
            /\ pc[c] = "returned" =>
                  \/ /\ pc'[c] = "awaitRefresh"
                     /\ ret[c].status = 401 /\ ~isRetry[c]
                     /\ cachedToken' = Null
                     /\ tokenPromise' # Null /\ joined'[c] = tokenPromise'
                     /\ invState'[joined'[c]] \notin Done
                  \/ /\ pc'[c] = "done"
                     /\ ~(ret[c].kind = "response" /\ ret[c].status = 401 /\ ~isRetry[c])
            \* resend, once the refresh has resolved
            /\ pc[c] = "awaitRefresh" =>
                  \/ pc'[c] = "awaitHeaders" /\ invState[joined[c]] \in {"doneToken", "doneEmpty"}
                        /\ isRetry'[c] /\ ~isRetry[c]
                  \/ pc'[c] = "done" /\ invState[joined[c]] = "doneError" /\ outcome'[c] = ProviderError
            /\ pc[c] # "done"

\* C23: within one logical call the events occur in the order get-credential, send, and on
\* a 401: invalidate, refresh, resend, finalize.  The resend never starts before the refresh
\* it awaits has resolved, and the cache is invalidated before that refresh is requested.
C23_Order == [][C23_Step]_vars

\* one of two concurrent calls went through the whole sequence: 401, invalidate, refresh,
\* resend, and resolved
C23_Witness ==
    \E c \in Calls :
        /\ pc[c] = "done" /\ isRetry[c] /\ refreshSteps[c] = 1
        /\ outcome[c].kind = "value"
        /\ faults = 1
        /\ \E d \in Calls : d # c /\ pc[d] # "idle"

\* the resend of call c is with the transport
C24_Resending(c) == isRetry[c] /\ pc[c] \in {"fetch", "sleep", "returned"}

\* the token the resend carries is the result of the invocation the call awaited in its
\* 401 branch or of a later one
C24_State ==
    \A c \in Calls :
        C24_Resending(c) =>
            /\ refreshedBy[c] \in 1..Invocations
            /\ fetchInit(c).headers.Authorization[2] = tok[c]
            /\ IF tok[c] = EmptyString
               THEN \E i \in refreshedBy[c]..Invocations : invState[i] = "doneEmpty"
               ELSE tok[c] \in refreshedBy[c]..Invocations /\ invState[tok[c]] = "doneToken"

\* when the 401 is dealt with, the result of the invocation the call then awaits has not
\* reached the client yet: its then callback has not run, the token is not cached
C24_Step ==
    \A c \in Calls :
        (pc[c] = "returned" /\ pc'[c] = "awaitRefresh") =>
            /\ refreshedBy'[c] = joined'[c]
            /\ invState'[refreshedBy'[c]] \notin Done
            /\ cachedToken' = Null

\* C24: the credential sent on the resend after a 401 was returned by a provider invocation
\* that completed (its result reached the client) after the 401 was received: under any
\* interleaving with other calls the resend never carries a credential obtained before the
\* rejection.
C24_ResendIsFresh == []C24_State /\ [][C24_Step]_vars

\* two calls answered 401 one after the other: the second joined no refresh of the first
\* and resends with the token of the third invocation
C24_Witness ==
    \E c \in Calls :
        /\ C24_Resending(c)
        /\ refreshedBy[c] = 3
        /\ tok[c] = 3
        /\ \E d \in Calls : d # c /\ refreshedBy[d] = 2

C25_Step ==
    /\ \A c \in Calls :
          \* clearToken() while a refresh is in flight leaves the refresh alone: the call joins it
          /\ (pc[c] = "returned" /\ pc'[c] = "awaitRefresh" /\ tokenPromise # Null) =>
                /\ cachedToken' = Null
                /\ tokenPromise' = tokenPromise
                /\ invState' = invState
                /\ joined'[c] = tokenPromise
          \* a caller that joined a refresh receives its result
          /\ (pc[c] \in {"awaitHeaders", "awaitRefresh"} /\ pc'[c] # pc[c] /\ joined[c] # 0) =>
                /\ invState[joined[c]] \in Done
                /\ (invState[joined[c]] # "doneError" /\ pc[c] = "awaitHeaders") =>
                      (pc'[c] = "fetch" /\ tok'[c] = TokenOf(joined[c]))
                /\ (invState[joined[c]] # "doneError" /\ pc[c] = "awaitRefresh") =>
                      pc'[c] = "awaitHeaders"
    \* the result of an invocation becomes the cached credential when it resolves, whether
    \* or not the cache was invalidated while it was outstanding
    /\ \A i \in 1..Invocations :
          (invState[i] \in {"settledToken", "settledEmpty"} /\ invState'[i] \in Done) =>
              /\ cachedToken' = (IF invState[i] = "settledEmpty" THEN EmptyString ELSE i)
              /\ tokenPromise' = Null

\* C25: invalidation never cancels a refresh in flight: when the credential is invalidated
\* while a provider invocation is outstanding, the result of that invocation still becomes
\* the cached credential when it resolves, and the callers that joined it receive it.
C25_InvalidateKeepsRefresh == [][C25_Step]_vars

\* the second invocation was outstanding when the 401 of a second call invalidated the
\* cache: both calls joined it, its token is cached and one call resends with it
C25_Witness ==
    /\ \A c \in Calls : refreshedBy[c] = 2
    /\ Invocations = 2
    /\ cachedToken = 2
    /\ \E c \in Calls : C24_Resending(c) /\ tok[c] = 2

\* ------------------------------- concurrent calls, some with an empty argument
\* the backend and the provider keep to the plain course; concurrent calls invoke the plain
\* operations, or any operation with an empty required identifier
ValidationNext ==
    \/ \E c \in Calls : NoFault(Invoke(c, PlainOp(c), PlainArgs(c)))
    \/ \E c \in Calls, o \in Ops :
          \E a \in ArgsOf(o) : (\E i \in DOMAIN a.ids : a.ids[i] = "") /\ NoFault(Invoke(c, o, a))
    \/ \E c \in Calls : NoFault(SendRequest(c))
    \/ \E c \in Calls : NoFault(FetchResponse(c, PlainResponse))
    \/ \E c \in Calls : NoFault(HandleResponse(c))
    \/ \E i \in 1..Invocations : NoFault(ProviderSettles(i, "settledToken"))
    \/ \E i \in 1..Invocations : NoFault(RefreshThen(i))

ValidationSpec == Init /\ [][ValidationNext]_vars

\* the required identifiers of operation o that are empty in a
C11_Empty(o, a) == {i \in 1..Len(RequiredArgs(o)) : a.ids[i] = ""}

\* C11: an operation invoked with an empty required identifier rejects with the local
\* error '<name> is required', <name> being the first empty one; the call makes no HTTP
\* attempt and takes no token, and the step that rejects it invokes no provider and leaves
\* the credential cache, the refresh in flight and every other call as they were.
C11_State ==
    \A c \in Calls :
        (op[c] # "none" /\ C11_Empty(op[c], args[c]) # {}) =>
            /\ pc[c] = "done"
            /\ outcome[c].kind = "validationError"
            /\ \E i \in C11_Empty(op[c], args[c]) :
                  /\ \A j \in C11_Empty(op[c], args[c]) : i <= j
                  /\ outcome[c].code = RequiredArgs(op[c])[i]
            /\ attempts[c] = 0 /\ priorAttempts[c] = 0 /\ aborts[c] = 0
            /\ joined[c] = 0 /\ refreshSteps[c] = 0
            /\ options[c] = NoOptions

C11_Step ==
    \A c \in Calls :
        (pc[c] = "idle" /\ op'[c] # "none" /\ C11_Empty(op'[c], args'[c]) # {}) =>
            UNCHANGED <<coordVars, attempts, priorAttempts, aborts, options>>

C11_ValidationIsLocal == []C11_State /\ [][C11_Step]_vars

\* completeStep("c1", "") has rejected with 'stepId is required' while a token was cached
C11_Witness ==
    \E c \in Calls :
        /\ op[c] = "completeStep" /\ args[c].ids = <<"c1", "">>
        /\ pc[c] = "done"
        /\ outcome[c] = ValidationError("stepId")
        /\ cachedToken = 1
        /\ Invocations = 1

\* ------------------------------------------- one logical call on its own
\* a single logical call on a fresh client, no other call in progress; the backend, the
\* network and the provider may do anything, any number of times
SoloNext ==
    \/ \E c \in Calls, o \in Ops :
          \E a \in ArgsOf(o) : (\A d \in Calls : pc[d] = "idle") /\ NoFault(Invoke(c, o, a))
    \/ \E c \in Calls : NoFault(SendRequest(c))
    \/ \E c \in Calls, r \in SoloResponses : NoFault(FetchResponse(c, r))
    \/ \E c \in Calls : NoFault(FetchTimeout(c))
    \/ \E c \in Calls : NoFault(FetchNetworkError(c))
    \/ \E c \in Calls : NoFault(SleepDone(c))
    \/ \E c \in Calls : NoFault(HandleResponse(c))
    \/ \E c \in Calls : NoFault(Resend(c))
    \/ \E i \in 1..Invocations, how \in Settled : NoFault(ProviderSettles(i, how))
    \/ \E i \in 1..Invocations : NoFault(RefreshThen(i))
    \/ \E i \in 1..Invocations : NoFault(RefreshCatch(i))

SoloSpec == Init /\ [][SoloNext]_vars

\* the resend of call c has been handed to the transport after a first send that made one
\* HTTP request, the one answered 401
C3_Resent(c) ==
    /\ isRetry[c]
    /\ priorAttempts[c] = 1
    /\ pc[c] \in {"fetch", "sleep", "returned", "done"}

C12_Settles(c) == pc[c] \in {"awaitHeaders", "returned", "awaitRefresh"} /\ pc'[c] = "done"

\* the call under get/post fails NOT_FOUND: the transport returned a 404 response
C12_NotFound(c) == pc[c] = "returned" /\ ret[c].kind = "response" /\ ret[c].status = 404

\* the call under get/post fails: the transport threw, returned a response that is not ok,
\* or the provider rejected
C12_Fails(c) ==
    \/ pc[c] \in {"awaitHeaders", "awaitRefresh"}
    \/ pc[c] = "returned" /\ (ret[c].kind = "throw" \/ ~(ret[c].status \in 200..299))

C12_Step ==
    \A c \in Calls :
        C12_Settles(c) =>
            /\ op[c] = "getCourseProgress" =>
                  /\ (outcome'[c] = ResolvedNull) <=> C12_NotFound(c)
                  /\ (C12_Fails(c) /\ ~C12_NotFound(c)) =>
                        outcome'[c].kind \in {"apiError", "providerError"}
                  /\ (pc[c] = "returned" /\ ret[c].kind = "response" /\ ret[c].status = 401) =>
                        (isRetry[c] /\ outcome'[c].kind = "apiError" /\ outcome'[c].status = 401)
                  /\ (pc[c] = "returned" /\ pc'[c] # "returned" /\ ret[c].kind = "response" /\ ret[c].status = 403) =>
                        outcome'[c] = Rejected(VenalabsApiError("INVALID_API_KEY", 403))
                  /\ (pc[c] = "returned" /\ ret[c].kind = "response" /\ ret[c].status >= 500) =>
                        outcome'[c] = Rejected(VenalabsApiError("SERVER_ERROR", ret[c].status))
                  /\ (pc[c] = "returned" /\ ret[c].kind = "throw") =>
                        /\ outcome'[c].kind = "apiError"
                        /\ outcome'[c].code \in {"NETWORK_ERROR", "TIMEOUT"}
                  /\ pc[c] \in {"awaitHeaders", "awaitRefresh"} => outcome'[c] = ProviderError
            /\ (op[c] = "getCourse" /\ C12_NotFound(c)) =>
                  outcome'[c] = Rejected(VenalabsApiError("NOT_FOUND", 404))

\* C12: getCourseProgress resolves null when, and only when, the call under it fails
\* NOT_FOUND (a 404 response, on the first send or on the resend after a 401).  Every other
\* failure rejects: a second 401, 403, 5xx, a network failure, a timeout, a rejection of
\* the provider.  getCourse answered 404 rejects with NOT_FOUND, status 404.
C12_NullOnlyOnNotFound == [][C12_Step]_vars

\* getCourseProgress answered 401, then 404 on the resend: it resolved null
C12_Witness ==
    \E c \in Calls :
        /\ op[c] = "getCourseProgress"
        /\ pc[c] = "done"
        /\ isRetry[c] /\ refreshSteps[c] = 1
        /\ outcome[c] = ResolvedNull

\* C17: every HTTP attempt of one logical call (first send, transport retry, resend after
\* a 401) has the method, the path and the JSON body the operation and its arguments
\* determine, hence the same as the first attempt: for completeStep(c, s, p) the body is
\* exactly p, and there is no body when p is omitted.  (With C16: the Authorization header
\* alone may differ between the first send and the resend.)
C17_SameRequest ==
    \A c \in Calls :
        pc[c] = "fetch" =>
            /\ fetchInit(c).method = (IF op[c] \in GetOps THEN "GET" ELSE "POST")
            /\ fetchInit(c).url = <<"/api/v1/sdk">> \o endpointOf(op[c], args[c])
            /\ fetchInit(c).body =
                  (IF bodyOf(op[c], args[c]).present
                   THEN [present |-> TRUE, json |-> bodyOf(op[c], args[c]).fields]
                   ELSE NoBody)
            /\ op[c] \in GetOps => fetchInit(c).body = NoBody
            /\ op[c] = "completeStep" =>
                  fetchInit(c).body =
                      (IF args[c].request.present
                       THEN [present |-> TRUE, json |-> args[c].request.fields]
                       ELSE NoBody)

\* completeStep("c1", "a/b", {selectedOptionIndex: 2}): the second attempt of its resend
\* is in flight, with that body
C17_Witness ==
    \E c \in Calls :
        /\ op[c] = "completeStep" /\ args[c] = [ids |-> <<"c1", "a/b">>, request |-> QuizAnswer]
        /\ pc[c] = "fetch" /\ isRetry[c] /\ attempts[c] = 2
        /\ fetchInit(c).method = "POST"
        /\ fetchInit(c).url = <<"/api/v1/sdk", "/courses/", "c1", "/steps/", "a%2Fb", "/complete">>
        /\ fetchInit(c).body = [present |-> TRUE, json |-> << <<"selectedOptionIndex", "2">> >>]

C18_Step ==
    \A c \in Calls, d \in Documents :
        (/\ op[c] = "getMaps"
         /\ pc[c] = "returned" /\ pc'[c] = "done"
         /\ ret[c].kind = "response" /\ ret[c].status = 200
         /\ ret[c].body = JSONtext(d)) =>
            /\ outcome'[c].kind = "value"
            /\ value'[c] = d

\* C18: round trip.  getMaps() resolves with the value whose JSON text the backend sent in
\* its successful response, unmodified, also when that response came on a transport retry
\* or on the resend after a 401.
C18_RoundTrip == [][C18_Step]_vars

\* getMaps() resolved with the one map the backend sent on the second attempt of the resend
C18_Witness ==
    \E c \in Calls :
        /\ op[c] = "getMaps" /\ pc[c] = "done"
        /\ isRetry[c] /\ attempts[c] = 2
        /\ outcome[c].kind = "value"
        /\ value[c] = <<"m1">>

\* the error kind of a response status other than 401
C26_Kind(status) ==
    CASE status = 403 -> "INVALID_API_KEY"
      [] status = 404 -> "NOT_FOUND"
      [] status = 429 -> "RATE_LIMITED"
      [] status >= 500 -> "SERVER_ERROR"
      [] OTHER -> "UNKNOWN"

\* the transport surfaced a failure other than a 401 to call c
C26_Failure(c) ==
    /\ pc[c] = "returned"
    /\ \/ ret[c].kind = "throw"
       \/ ret[c].kind = "response" /\ ret[c].status >= 400 /\ ret[c].status # 401

C26_Step ==
    \A c \in Calls :
        (C26_Failure(c) /\ pc'[c] # pc[c]) =>
            /\ pc'[c] = "done"
            \* rejected with the corresponding kind (getCourseProgress: null on NOT_FOUND)
            /\ outcome'[c] =
                  (IF ret[c].kind = "throw"
                   THEN [kind |-> "apiError", code |-> ret[c].code, status |-> 0]
                   ELSE IF op[c] = "getCourseProgress" /\ ret[c].status = 404
                        THEN ResolvedNull
                        ELSE [kind |-> "apiError", code |-> C26_Kind(ret[c].status),
                              status |-> ret[c].status])
            /\ ret[c].kind = "throw" => ret[c].code \in {"NETWORK_ERROR", "TIMEOUT"}
            \* no resend, no invalidation, no provider invocation
            /\ UNCHANGED <<coordVars, isRetry, attempts, priorAttempts, refreshSteps>>

\* C26: the client never retries a failure the transport surfaces other than a 401: a
\* thrown NETWORK_ERROR or TIMEOUT, or a final response with status >= 500, 429, 403, 404
\* or another error status, is turned into the corresponding error kind and rejected with
\* no resend by the client, no invalidation of the cache and no provider invocation.
C26_OnlyUnauthorizedResends == [][C26_Step]_vars

\* a call whose two attempts both timed out rejected with TIMEOUT after one send, the
\* token of the one invocation still cached
C26_Witness ==
    \E c \in Calls :
        /\ pc[c] = "done"
        /\ outcome[c] = [kind |-> "apiError", code |-> "TIMEOUT", status |-> 0]
        /\ attempts[c] = 2 /\ priorAttempts[c] = 0 /\ aborts[c] = 2
        /\ ~isRetry[c]
        /\ cachedToken = 1 /\ Invocations = 1

\* a logical call sends at most twice, each send within the transport budget
C27_State ==
    \A c \in Calls :
        /\ attempts[c] <= retries + 1
        /\ priorAttempts[c] <= retries + 1
        /\ priorAttempts[c] > 0 => isRetry[c]
        /\ priorAttempts[c] + attempts[c] <= 2 * (retries + 1)
        /\ priorAttempts[c] + attempts[c] <= 4

\* every send, the resend after a 401 included, starts with retries + 1 attempts
C27_Step ==
    \A c \in Calls :
        (pc[c] = "awaitHeaders" /\ pc'[c] = "fetch") =>
            /\ attemptsRemaining'[c] = retries + 1
            /\ attempts'[c] = 1
            /\ priorAttempts'[c] = priorAttempts[c] + attempts[c]

\* C27: the 401 retry budget and the transport retry budget are independent: the resend
\* after a 401 starts with a full transport budget of retries + 1 attempts even when the
\* first send consumed transport retries, so one logical call makes at most
\* 2 * (retries + 1) = 4 HTTP attempts with the client's retries = 1, never more.
C27_IndependentBudgets == []C27_State /\ [][C27_Step]_vars

\* 500, 401, refresh, 500, 500: the call rejected after 4 HTTP attempts
C27_Witness ==
    \E c \in Calls :
        /\ pc[c] = "done" /\ isRetry[c]
        /\ priorAttempts[c] = 2 /\ attempts[c] = 2
        /\ outcome[c] = [kind |-> "apiError", code |-> "SERVER_ERROR", status |-> 500]

\* C29: an error a call rejects with for what the transport delivered has status 0 exactly
\* when its kind is NETWORK_ERROR or TIMEOUT; an error built from an HTTP response carries
\* the status of that response and a kind other than these two, and an error for a fetch
\* that produced no response is one of these two with status 0.
C29_NoResponseKinds == {"NETWORK_ERROR", "TIMEOUT"}

C29_State ==
    \A c \in Calls :
        (pc[c] = "done" /\ outcome[c].kind = "apiError") =>
            (outcome[c].status = 0 <=> outcome[c].code \in C29_NoResponseKinds)

C29_Step ==
    \A c \in Calls :
        (pc[c] = "returned" /\ pc'[c] = "done" /\ outcome'[c].kind = "apiError") =>
            IF ret[c].kind = "response"
            THEN /\ outcome'[c].status = ret[c].status
                 /\ outcome'[c].status # 0
                 /\ outcome'[c].code \notin C29_NoResponseKinds
            ELSE /\ outcome'[c].status = 0
                 /\ outcome'[c].code = (IF lastError[c] = FetchError THEN "NETWORK_ERROR" ELSE "TIMEOUT")

C29_StatusZeroIffNoResponse == []C29_State /\ [][C29_Step]_vars

\* a call rejected with TIMEOUT and status 0 after both of its fetches were aborted
C29_Witness ==
    \E c \in Calls :
        /\ pc[c] = "done" /\ outcome[c] = Rejected(VenalabsApiError("TIMEOUT", 0))
        /\ attempts[c] = 2 /\ aborts[c] = 2

\* C14: for every client call, GET as well as POST, a success response with status 204 or
\* an empty body resolves undefined without any attempt to parse JSON, so no call rejects
\* with a parse error.  (The success responses of the backend carry a JSON document or an
\* empty body: a parse error is an empty body handed to response.json().)
C14_EmptySuccessNeverParsed ==
    \A c \in Calls : pc[c] = "done" => outcome[c].kind # "parseError"

\* ------------------------------------------------------------ construction
\* the configs handed to the constructor: the API key is "" or a key, the provider is
\* missing or a function
Configs == [apiKey : {"", "key"}, getAccessToken : {"missing", "provider"}]

\* a constructor without its two checks
constructorUnchecked(cfg) == "none"

\* the checks of the constructor: the message of the Error it throws, or "none"
constructor(cfg) ==
    IF cfg.apiKey = ""
    THEN "apiKey is required"
    ELSE IF cfg.getAccessToken = "missing"
         THEN "getAccessToken is required"
         ELSE "none"

\* new VenalabsApiClient(config)
Construct ==
    /\ client = "none"
    /\ ctorError' = constructor(config)
    /\ client' = IF constructor(config) = "none" THEN "constructed" ELSE "threw"
    /\ UNCHANGED <<coordVars, callVars, fetchVars, errVars, opVars, options, value, config, memoVars>>

\* before `new VenalabsApiClient(config)`
InitCtor ==
    /\ InitCoordinator
    /\ InitCalls
    /\ InitApi
    /\ config \in Configs
    /\ client = "none"
    /\ ctorError = "none"
    /\ retries = CLIENT_RETRIES
    /\ errIn = NoErrIn
    /\ errOut = NoErrOut
    /\ faults = 0

CtorNext == NoFault(Construct) \/ SoloNext

CtorSpec == InitCtor /\ [][CtorNext]_vars

C15_State ==
    /\ (client # "none" /\ config.apiKey = "") =>
          (client = "threw" /\ ctorError = "apiKey is required")
    /\ (client # "none" /\ config.apiKey # "" /\ config.getAccessToken = "missing") =>
          (client = "threw" /\ ctorError = "getAccessToken is required")
    /\ (client # "none" /\ config.apiKey # "" /\ config.getAccessToken # "missing") =>
          (client = "constructed" /\ ctorError = "none")
    \* no client object: no operation runs, the provider is never invoked
    /\ client = "threw" =>
          /\ \A c \in Calls : pc[c] = "idle" /\ op[c] = "none"
          /\ Invocations = 0 /\ cachedToken = Null /\ tokenPromise = Null
    \* a constructed client has not invoked the provider before its first operation
    /\ (\A c \in Calls : op[c] = "none") => Invocations = 0

\* the constructor returns or throws without touching the token coordinator
C15_Step == (client = "none" /\ client' # "none") => (Invocations = 0 /\ UNCHANGED coordVars)

\* C15: constructing a client with an empty API key throws 'apiKey is required', with a
\* missing provider 'getAccessToken is required'; no client exists afterwards and the
\* provider has not been invoked.  Construction with a valid config does not invoke the
\* provider either: it is invoked by the first operation that needs the credential.
C15_ConstructionFailsFast == []C15_State /\ [][C15_Step]_vars

\* construction with an empty API key and a provider function threw: no client, no
\* invocation of the provider
C15_Witness ==
    /\ config = [apiKey |-> "", getAccessToken |-> "provider"]
    /\ client = "threw"
    /\ ctorError = "apiKey is required"
    /\ Invocations = 0

\* ------------------------------------------------- a backend that refuses
\* concurrent calls against a backend that answers 403, and now and then 401 or 500
ForbiddenResponses ==
    {HttpResponse(403, "NONE", "json"), HttpResponse(401, "TOKEN_EXPIRED", "json"),
     HttpResponse(500, "NONE", "json")}

ForbiddenNext ==
    \/ \E c \in Calls : NoFault(Invoke(c, PlainOp(c), PlainArgs(c)))
    \/ \E c \in Calls : NoFault(SendRequest(c))
    \/ \E c \in Calls : NoFault(FetchResponse(c, PlainResponse))
    \/ \E c \in Calls, r \in ForbiddenResponses : Fault(FetchResponse(c, r))
    \/ \E c \in Calls : NoFault(SleepDone(c))
    \/ \E c \in Calls : NoFault(HandleResponse(c))
    \/ \E c \in Calls : NoFault(Resend(c))
    \/ \E i \in 1..Invocations : NoFault(ProviderSettles(i, "settledToken"))
    \/ \E i \in 1..Invocations : NoFault(RefreshThen(i))

ForbiddenSpec == Init /\ [][ForbiddenNext]_vars

\* the calls that rejected with INVALID_API_KEY, status 403
C13_Refused == {c \in Calls : pc[c] = "done" /\ outcome[c] = Rejected(VenalabsApiError("INVALID_API_KEY", 403))}

\* when the 403 answers are all the backend did wrong, each refused call made one HTTP
\* attempt and no refresh step, and the provider was invoked once for all calls together
C13_State ==
    (C13_Refused # {} /\ faults = Cardinality(C13_Refused)) =>
        /\ \A c \in C13_Refused :
              /\ priorAttempts[c] + attempts[c] = 1
              /\ refreshSteps[c] = 0
              /\ ~isRetry[c]
        /\ Invocations = 1

C13_Step ==
    \A c \in Calls :
        \* a 403 answer ends the transport's loop at once
        /\ (pc[c] = "fetch" /\ last'[c].kind = "response" /\ last'[c].status = 403) =>
              /\ pc'[c] = "returned"
              /\ ret'[c].kind = "response" /\ ret'[c].status = 403
        \* get/post rejects on it and leaves the token cache and the provider alone
        /\ (pc[c] = "returned" /\ pc'[c] # "returned" /\ ret[c].kind = "response" /\ ret[c].status = 403) =>
              /\ pc'[c] = "done"
              /\ outcome'[c] = Rejected(VenalabsApiError("INVALID_API_KEY", 403))
              /\ UNCHANGED <<coordVars, refreshSteps, attempts, priorAttempts>>

\* C13: a 403 response is neither retried nor taken for a failure of the credential: the
\* call makes exactly one HTTP attempt and rejects with INVALID_API_KEY, status 403; the
\* cache is not invalidated and the provider is not invoked again.  A second call answered
\* 403 behaves the same and reuses the cached credential.
C13_ForbiddenIsFinal == []C13_State /\ [][C13_Step]_vars

\* two calls refused one after the other, the second sent with the token the first cached
C13_Witness ==
    /\ C13_Refused = Calls
    /\ faults = NumCalls
    /\ Invocations = 1
    /\ cachedToken = 1
    /\ \A c \in Calls : priorAttempts[c] + attempts[c] = 1

\* ----------------------------------------------- the transport on its own
\* fetchWithRetry(url, options, {retries}) called directly, one call at a time
TransportResponses == {HttpResponse(s, "NONE", "json") : s \in 200..MaxStatus}

InitTransport ==
    /\ InitCoordinator
    /\ InitCalls
    /\ InitApi
    /\ InitConstructed
    /\ retries \in 0..MaxRetries
    /\ errIn = NoErrIn
    /\ errOut = NoErrOut
    /\ faults = 0

TransportInvoke(c) ==
    /\ \A d \in Calls : pc[d] = "idle"
    /\ fetchWithRetry(c)
    /\ UNCHANGED <<coordVars, method, isRetry, joined, epoch, tok, refreshSteps, refreshedBy, outcome,
                   retries, aborts, errVars, apiVars>>

NextTransport ==
    \/ \E c \in Calls : NoFault(TransportInvoke(c))
    \/ \E c \in Calls, r \in TransportResponses : NoFault(FetchResponse(c, r))
    \/ \E c \in Calls : NoFault(FetchTimeout(c))
    \/ \E c \in Calls : NoFault(FetchNetworkError(c))
    \/ \E c \in Calls : NoFault(SleepDone(c))

TransportSpec == InitTransport /\ [][NextTransport]_vars

\* a status the transport is to retry, as the policy words it
C5_Retryable(status) == status >= 500 \/ status = 429

\* C5: the transport makes a further attempt only after a response with status >= 500 or
\* 429, a timeout or a network error; a response with any other status (2xx, 400, 401, 403,
\* 404, ...) is returned as it is with no attempt after it; a response with a retryable
\* status is returned only once all retries + 1 attempts have been made.
C5_RetryOnlyRetryable ==
    \A c \in Calls :
        /\ (pc[c] = "sleep" \/ (pc[c] = "fetch" /\ attempts[c] >= 2)) =>
              \/ last[c].kind \in {"timeout", "network"}
              \/ last[c].kind = "response" /\ C5_Retryable(last[c].status)
        /\ (pc[c] = "returned" /\ last[c].kind = "response") =>
              /\ ret[c] = Returned(last[c])
              /\ C5_Retryable(last[c].status) => attempts[c] = retries + 1

\* with retries = MaxRetries, a 500 has been answered to every attempt and is returned
C5_Witness ==
    \E c \in Calls :
        /\ pc[c] = "returned" /\ retries = MaxRetries
        /\ ret[c].kind = "response" /\ ret[c].status = 500
        /\ attempts[c] = MaxRetries + 1

\* C6: one invocation of the transport with retries = r makes at most r + 1 attempts; bad
\* statuses, timeouts and network errors draw from the same budget: while the transport
\* waits to retry at most r attempts have been made, and it gives up on a failure of any
\* kind exactly when r + 1 attempts have been made.
C6_AttemptBudget ==
    \A c \in Calls :
        /\ attempts[c] <= retries + 1
        /\ pc[c] = "sleep" => attempts[c] <= retries
        /\ (pc[c] = "returned" /\ (last[c].kind \in {"timeout", "network"}
                                    \/ C5_Retryable(last[c].status))) =>
              attempts[c] = retries + 1

\* with retries = MaxRetries >= 1 the transport gave up after a mix of failures: a timeout
\* among the earlier attempts, a network error last
C6_Witness ==
    \E c \in Calls :
        /\ pc[c] = "returned" /\ retries = MaxRetries
        /\ attempts[c] = MaxRetries + 1
        /\ last[c].kind = "network" /\ aborts[c] >= 1

\* one wait before every attempt but the first, none after the attempt that ended the
\* invocation, every wait of the fixed delay
C28_State ==
    \A c \in Calls :
        /\ pc[c] \in {"fetch", "returned"} => Len(sleeps[c]) = attempts[c] - 1
        /\ pc[c] = "sleep" => Len(sleeps[c]) = attempts[c]
        /\ \A k \in 1..Len(sleeps[c]) : sleeps[c][k] = 2000

C28_Step ==
    \A c \in Calls :
        \* an attempt ends: a wait starts, or the result or error is delivered at once
        /\ (pc[c] = "fetch" /\ pc'[c] # "fetch") =>
              \/ pc'[c] = "sleep" /\ sleeps'[c] = Append(sleeps[c], 2000) /\ ret'[c] = NoReturn
              \/ pc'[c] = "returned" /\ sleeps'[c] = sleeps[c] /\ ret'[c] # NoReturn
        \* the same wait whatever the attempt ended with
        /\ (pc[c] = "fetch" /\ pc'[c] = "sleep") =>
              /\ last'[c].kind \in {"response", "timeout", "network"}
              /\ attempts'[c] = attempts[c]
        \* the next attempt starts after the wait, and only after a wait
        /\ (pc[c] \in {"fetch", "sleep"} /\ attempts'[c] = attempts[c] + 1) =>
              (pc[c] = "sleep" /\ pc'[c] = "fetch")
        /\ pc[c] = "sleep" /\ pc'[c] # "sleep" =>
              (pc'[c] = "fetch" /\ attempts'[c] = attempts[c] + 1 /\ sleeps'[c] = sleeps[c])

\* C28: between every two consecutive attempts of one transport invocation exactly one
\* wait of the fixed retryDelay takes place, the same after a bad status, a network error
\* or a timeout, and no wait takes place after the final attempt before the result or the
\* error is delivered.
C28_OneWaitBetweenAttempts == []C28_State /\ [][C28_Step]_vars

\* three attempts: a timeout, a network error, then a 500 that is returned at once: two
\* waits of 2000 ms
C28_Witness ==
    \E c \in Calls :
        /\ pc[c] = "returned" /\ attempts[c] = 3
        /\ aborts[c] = 1 /\ lastError[c] = FetchError
        /\ ret[c].kind = "response" /\ ret[c].status = 500
        /\ sleeps[c] = <<2000, 2000>>

SilentNext ==
    \/ \E c \in Calls : NoFault(Invoke(c, PlainOp(c), PlainArgs(c)))
    \/ \E c \in Calls : NoFault(SendRequest(c))
    \/ \E c \in Calls : NoFault(FetchTimeout(c))
    \/ \E c \in Calls : NoFault(SleepDone(c))
    \/ \E c \in Calls : NoFault(HandleResponse(c))
    \/ \E i \in 1..Invocations, how \in Settled : NoFault(ProviderSettles(i, how))
    \/ \E i \in 1..Invocations : NoFault(RefreshThen(i))
    \/ \E i \in 1..Invocations : NoFault(RefreshCatch(i))

SilentSpec == Init /\ [][SilentNext]_vars /\ WF_vars(SilentNext)

\* C8: against an endpoint that never answers within the timeout, every attempt of a call
\* that has sent its request is aborted by its timer, and the call eventually rejects
\* with a TIMEOUT error.
C8_TimeoutRejects ==
    \A c \in Calls :
        (pc[c] = "fetch") ~>
            (/\ pc[c] = "done"
             /\ outcome[c].kind = "apiError" /\ outcome[c].code = "TIMEOUT"
             /\ aborts[c] = attempts[c]
             /\ attempts[c] = retries + 1)

\* a call has rejected with TIMEOUT after each of its attempts was aborted
C8_Witness ==
    \E c \in Calls :
        /\ pc[c] = "done"
        /\ outcome[c].code = "TIMEOUT"
        /\ aborts[c] = CLIENT_RETRIES + 1

\* --------------------------------------------- VenalabsApiError on its own
ErrInputs ==
    {[src |-> "response", code |-> "NONE", status |-> s, type |-> t] : s \in 0..MaxStatus, t \in BodyTypes}
    \cup {[src |-> "network", code |-> "NONE", status |-> 0, type |-> "NONE"],
          [src |-> "timeout", code |-> "NONE", status |-> 0, type |-> "NONE"]}
    \cup {[src |-> "new", code |-> k, status |-> 0, type |-> "NONE"] : k \in VenalabsErrorCodes}

InitErr ==
    /\ InitCoordinator
    /\ InitCalls
    /\ InitApi
    /\ InitConstructed
    /\ retries = CLIENT_RETRIES
    /\ errIn \in ErrInputs
    /\ errOut = NoErrOut
    /\ faults = 0

Built(e) ==
    [stage |-> "built", code |-> e.code, status |-> e.status, auth |-> FALSE, retryable |-> FALSE,
     retried |-> FALSE]

\* VenalabsApiError.fromResponse(status, body)
ErrFromResponse ==
    /\ errIn.src = "response" /\ errOut.stage = "none"
    /\ errOut' = Built(fromResponse(errIn.status, errIn.type))
    /\ UNCHANGED <<coordVars, callVars, fetchVars, errIn, faults, apiVars>>

\* VenalabsApiError.fromNetworkError(error)
ErrFromNetworkError ==
    /\ errIn.src = "network" /\ errOut.stage = "none"
    /\ errOut' = Built(fromNetworkError(FetchError))
    /\ UNCHANGED <<coordVars, callVars, fetchVars, errIn, faults, apiVars>>

\* VenalabsApiError.fromTimeout(timeoutMs)
ErrFromTimeout ==
    /\ errIn.src = "timeout" /\ errOut.stage = "none"
    /\ errOut' = Built(fromTimeout)
    /\ UNCHANGED <<coordVars, callVars, fetchVars, errIn, faults, apiVars>>

\* new VenalabsApiError(code, status, message)
ErrNew ==
    /\ errIn.src = "new" /\ errOut.stage = "none"
    /\ errOut' = Built(VenalabsApiError(errIn.code, errIn.status))
    /\ UNCHANGED <<coordVars, callVars, fetchVars, errIn, faults, apiVars>>

\* error.isAuthError(), error.isRetryable()
ErrQuery ==
    /\ errOut.stage = "built"
    /\ errOut' = [errOut EXCEPT !.stage = "queried", !.auth = isAuthError(errOut),
                                !.retryable = isRetryable(errOut)]
    /\ UNCHANGED <<coordVars, callVars, fetchVars, errIn, faults, apiVars>>

\* isRetryableStatus(response.status) of the transport for the same response
ErrRetryStatus ==
    /\ errIn.src = "response" /\ errOut.stage = "queried"
    /\ errOut' = [errOut EXCEPT !.stage = "compared", !.retried = isRetryableStatus(errIn.status)]
    /\ UNCHANGED <<coordVars, callVars, fetchVars, errIn, faults, apiVars>>

NextErr == ErrFromResponse \/ ErrFromNetworkError \/ ErrFromTimeout \/ ErrNew \/ ErrQuery \/ ErrRetryStatus

ErrSpec == InitErr /\ [][NextErr]_vars

\* C9: fromResponse is total and follows the table: 401 with type TOKEN_EXPIRED ->
\* TOKEN_EXPIRED; any other 401 -> INVALID_TOKEN; 403 -> INVALID_API_KEY; 404 -> NOT_FOUND;
\* 429 -> RATE_LIMITED; status >= 500 -> SERVER_ERROR; anything else -> UNKNOWN; the error
\* carries the status it was built from.
C9_Table ==
    (errIn.src = "response" /\ errOut.stage # "none") =>
        /\ errOut.status = errIn.status
        /\ errOut.code \in VenalabsErrorCodes
        /\ errOut.code =
              (IF errIn.status = 401 /\ errIn.type = "TOKEN_EXPIRED" THEN "TOKEN_EXPIRED"
               ELSE IF errIn.status = 401 THEN "INVALID_TOKEN"
               ELSE IF errIn.status = 403 THEN "INVALID_API_KEY"
               ELSE IF errIn.status = 404 THEN "NOT_FOUND"
               ELSE IF errIn.status = 429 THEN "RATE_LIMITED"
               ELSE IF errIn.status >= 500 THEN "SERVER_ERROR"
               ELSE "UNKNOWN")

\* an error has been built from a 429 response
C9_Witness ==
    /\ errIn.src = "response" /\ errIn.status = 429
    /\ errOut.stage = "built"
    /\ errOut.code = "RATE_LIMITED" /\ errOut.status = 429

\* C10: for each of the nine kinds isAuthError() is true exactly for INVALID_API_KEY,
\* INVALID_TOKEN and TOKEN_EXPIRED, and isRetryable() exactly for NETWORK_ERROR, TIMEOUT,
\* SERVER_ERROR and RATE_LIMITED.
C10_Queries ==
    errOut.stage = "queried" =>
        /\ errOut.code \in VenalabsErrorCodes
        /\ errOut.auth <=> errOut.code \in {"INVALID_API_KEY", "INVALID_TOKEN", "TOKEN_EXPIRED"}
        /\ errOut.retryable <=>
              errOut.code \in {"NETWORK_ERROR", "TIMEOUT", "SERVER_ERROR", "RATE_LIMITED"}

\* a RATE_LIMITED error constructed directly has been queried: retryable, not an auth error
C10_Witness ==
    /\ errIn.src = "new" /\ errIn.code = "RATE_LIMITED"
    /\ errOut.stage = "queried"
    /\ errOut.retryable /\ ~errOut.auth

\* C37: for every HTTP status the retry predicate of the transport and the error taxonomy
\* agree: the transport retries a response of status s exactly when the error fromResponse
\* builds from s answers isRetryable() = true.
C37_RetryAgreement ==
    errOut.stage = "compared" =>
        /\ errOut.status = errIn.status
        /\ errOut.retried <=> errOut.retryable
        /\ errOut.retried <=> (errIn.status >= 500 \/ errIn.status = 429)

\* a 429 response: the transport retries it and the RATE_LIMITED error built from it is
\* retryable
C37_Witness ==
    /\ errIn.src = "response" /\ errIn.status = 429
    /\ errOut.stage = "compared" /\ errOut.code = "RATE_LIMITED"
    /\ errOut.retried /\ errOut.retryable

\* ------------------------------------------ the course memo of the provider
\* courseCache.has(courseId)
has(id) == id \in DOMAIN courseCache

\* courseCache.set(courseId, course)
set(id, course) ==
    [k \in DOMAIN courseCache \cup {id} |-> IF k = id THEN course ELSE courseCache[k]]

\* the provider's getCourse(courseId) up to its first await: it returns the course of the
\* memo, or calls apiClient.getCourse(courseId)
getCourse(c, id) ==
    /\ loadPc[c] = "none"
    /\ pc[c] = "idle"
    /\ loadId' = [loadId EXCEPT ![c] = id]
    /\ IF has(id)
       THEN /\ loadPc' = [loadPc EXCEPT ![c] = "returned"]
            /\ loaded' = [loaded EXCEPT ![c] = Course(courseCache[id])]
            /\ UNCHANGED <<coordVars, callVars, fetchVars, errVars, opVars, options, value, ctorVars>>
       ELSE /\ loadPc' = [loadPc EXCEPT ![c] = "awaiting"]
            /\ operation(c, "getCourse", [ids |-> <<id>>, request |-> NoRequest])
            /\ UNCHANGED loaded
    /\ UNCHANGED <<courseCache, instance, courseOwner, stateVars>>

\* `await apiClient.getCourse(courseId)` resumes: the course is stored and returned, or the
\* catch block returns null
getCourseResume(c) ==
    /\ loadPc[c] = "awaiting"
    /\ pc[c] = "done"
    /\ loadPc' = [loadPc EXCEPT ![c] = "returned"]
    /\ IF outcome[c].kind \in {"apiError", "providerError", "parseError", "validationError"}
       THEN /\ loaded' = [loaded EXCEPT ![c] = NullCourse]
            /\ UNCHANGED <<courseCache, courseOwner>>
       ELSE /\ courseCache' = set(loadId[c], value[c])
            /\ courseOwner' = [k \in DOMAIN courseOwner \cup {loadId[c]} |->
                                  IF k = loadId[c] THEN instance ELSE courseOwner[k]]
            /\ loaded' = [loaded EXCEPT ![c] = Course(value[c])]
    /\ UNCHANGED <<coordVars, callVars, fetchVars, errVars, opVars, options, value, ctorVars, loadId,
                   instance, stateVars>>

\* what the backend answers a course request with: the course, the course after an edit,
\* and failures
CourseResponse == HttpResponse(200, "NONE", "json")
OtherCourseResponses ==
    {HttpResponse(200, "NONE", "[m1]"), HttpResponse(401, "TOKEN_EXPIRED", "json"),
     HttpResponse(404, "NONE", "json"), HttpResponse(500, "NONE", "json")}

MemoNext ==
    \/ \E c \in Calls, id \in Ids : NoFault(getCourse(c, id))
    \/ \E c \in Calls : NoFault(getCourseResume(c))
    \/ \E c \in Calls : NoFault(SendRequest(c))
    \/ \E c \in Calls : NoFault(FetchResponse(c, CourseResponse))
    \/ \E c \in Calls, r \in OtherCourseResponses : Fault(FetchResponse(c, r))
    \/ \E c \in Calls : Fault(FetchNetworkError(c))
    \/ \E c \in Calls : NoFault(SleepDone(c))
    \/ \E c \in Calls : NoFault(HandleResponse(c))
    \/ \E c \in Calls : NoFault(Resend(c))
    \/ \E i \in 1..Invocations : NoFault(ProviderSettles(i, "settledToken"))
    \/ \E i \in 1..Invocations : NoFault(RefreshThen(i))

MemoSpec == Init /\ [][MemoNext]_vars

\* C30: once a getCourse(id) of the provider has stored a course, the entry of id is never
\* removed and never replaced by another course, and every getCourse(id) that starts later
\* returns the stored course without entering the client; a getCourse that fails returns
\* null and leaves the memo as it was.
C30_Step ==
    /\ \A id \in DOMAIN courseCache :
          id \in DOMAIN courseCache' /\ courseCache'[id] = courseCache[id]
    /\ \A c \in Calls :
          (loadPc[c] = "none" /\ loadPc'[c] # "none" /\ has(loadId'[c])) =>
              /\ loadPc'[c] = "returned" /\ loaded'[c] = Course(courseCache[loadId'[c]])
              /\ pc'[c] = "idle" /\ attempts'[c] = 0
    /\ \A c \in Calls :
          (loadPc[c] = "awaiting" /\ loadPc'[c] = "returned" /\ outcome[c].kind # "value") =>
              (loaded'[c] = NullCourse /\ courseCache' = courseCache)

C30_MemoIsWriteOnce == [][C30_Step]_vars

\* ------------------------------------ the provider replaces its client
\* client objects the provider makes in its lifetime
MaxInstances == 2

\* the props of a later render: another API key
OtherConfig == [apiKey |-> "key2", getAccessToken |-> "provider"]

\* a render with another apiKey (or getAccessToken, or baseUrl) while no call is in flight:
\* useMemo makes a new VenalabsApiClient, whose token fields start null; the memo whose
\* dependency list is empty and the state of the provider are kept
replaceClient ==
    /\ instance < MaxInstances
    /\ \A c \in Calls : pc[c] \in {"idle", "done"} /\ loadPc[c] \in {"none", "returned"}
    /\ config' = (IF config = ValidConfig THEN OtherConfig ELSE ValidConfig)
    /\ constructor(config') = "none"
    /\ instance' = instance + 1
    /\ cachedToken' = Null
    /\ tokenPromise' = Null
    /\ UNCHANGED <<invState, callVars, fetchVars, errVars, opVars, options, value, client, ctorError,
                   courseCache, loadPc, loadId, loaded, courseOwner, stateVars>>

InstanceNext == MemoNext \/ NoFault(replaceClient)

InstanceSpec == Init /\ [][InstanceNext]_vars

\* C31: the course memo belongs to one client instance: when the provider replaces its
\* client the memo is emptied, and a getCourse(id) served from the memo returns a course that
\* was fetched through the client instance in use.
C31_Step ==
    /\ instance' # instance => courseCache' = NoCourses
    /\ \A c \in Calls :
          (loadPc[c] = "none" /\ loadPc'[c] = "returned") => courseOwner[loadId'[c]] = instance

C31_MemoScopedToInstance == [][C31_Step]_vars

\* ------------------------------------ the initial fetch of the provider
\* the call of the client each helper of the provider awaits
SlotOf(f) == IF f = "progress" THEN 2 ELSE 1

\* a settled call whose result its caller has taken leaves nothing behind
release(c) ==
    /\ pc' = [pc EXCEPT ![c] = "idle"]
    /\ method' = [method EXCEPT ![c] = "GET"]
    /\ isRetry' = [isRetry EXCEPT ![c] = FALSE]
    /\ joined' = [joined EXCEPT ![c] = 0]
    /\ epoch' = [epoch EXCEPT ![c] = 0]
    /\ tok' = [tok EXCEPT ![c] = Null]
    /\ refreshSteps' = [refreshSteps EXCEPT ![c] = 0]
    /\ refreshedBy' = [refreshedBy EXCEPT ![c] = 0]
    /\ outcome' = [outcome EXCEPT ![c] = NotSettled]
    /\ attemptsRemaining' = [attemptsRemaining EXCEPT ![c] = 0]
    /\ lastError' = [lastError EXCEPT ![c] = NullError]
    /\ last' = [last EXCEPT ![c] = NoAttempt]
    /\ ret' = [ret EXCEPT ![c] = NoReturn]
    /\ attempts' = [attempts EXCEPT ![c] = 0]
    /\ priorAttempts' = [priorAttempts EXCEPT ![c] = 0]
    /\ aborts' = [aborts EXCEPT ![c] = 0]
    /\ sleeps' = [sleeps EXCEPT ![c] = <<>>]
    /\ op' = [op EXCEPT ![c] = "none"]
    /\ args' = [args EXCEPT ![c] = NoArgs]
    /\ endpoint' = [endpoint EXCEPT ![c] = <<>>]
    /\ reqBody' = [reqBody EXCEPT ![c] = NoRequest]
    /\ options' = [options EXCEPT ![c] = NoOptions]
    /\ value' = [value EXCEPT ![c] = <<>>]

\* response.walletAddresses?.['STELLAR_TESTNET'] || ... || null: the wallet object of the
\* backend holds a Stellar address, any other document holds none
stellarAddress(response) == IF response = <<"object">> THEN "G1" ELSE NullAddress

\* a fetchLinkedWallet whose catch block clears the address
stellarAddressOrCleared(c) == IF outcome[c].kind = "value" THEN stellarAddress(value[c]) ELSE NullAddress

\* the address fetchLinkedWallet leaves in the state: the catch block sets nothing
stellarAddressOrKept(c) ==
    IF outcome[c].kind = "value" THEN stellarAddress(value[c]) ELSE linkedWalletAddress

\* the initial-fetch effect runs init(): setLoading(true), setError(null), and
\* Promise.all([refreshMaps(), ...]) calls refreshMaps(), which calls apiClient.getMaps()
init ==
    /\ initPc = "mounted"
    /\ loading' = TRUE
    /\ errorState' = NoSdkError
    /\ operation(SlotOf("maps"), "getMaps", NoArgs)
    /\ refreshPc' = [refreshPc EXCEPT !["maps"] = "awaiting"]
    /\ initPc' = "refreshMaps"
    /\ UNCHANGED <<courseVars, maps, progress, linkedWalletAddress, walletPc>>

\* ... and refreshProgress(), which calls apiClient.getProgress(); init() awaits both
initRefreshProgress ==
    /\ initPc = "refreshMaps"
    /\ operation(SlotOf("progress"), "getProgress", NoArgs)
    /\ refreshPc' = [refreshPc EXCEPT !["progress"] = "awaiting"]
    /\ initPc' = "awaitAll"
    /\ UNCHANGED <<courseVars, maps, progress, loading, errorState, linkedWalletAddress, walletPc>>

\* refreshMaps() / refreshProgress() resume after their await: the state is set, or the
\* catch block sets the error (maps) or logs (progress)
refreshResume(f) ==
    LET c == SlotOf(f) IN
    /\ refreshPc[f] = "awaiting"
    /\ pc[c] = "done"
    /\ refreshPc' = [refreshPc EXCEPT ![f] = "settled"]
    /\ IF f = "maps"
       THEN /\ maps' = (IF outcome[c].kind = "value" THEN value[c] ELSE maps)
            /\ errorState' = (IF outcome[c].kind = "value" THEN NoSdkError ELSE outcome[c])
            /\ UNCHANGED progress
       ELSE /\ progress' = (IF outcome[c].kind = "value" THEN value[c] ELSE progress)
            /\ UNCHANGED <<maps, errorState>>
    /\ release(c)
    /\ UNCHANGED <<coordVars, retries, errVars, ctorVars, courseVars, loading, linkedWalletAddress,
                   initPc, walletPc>>

\* Promise.all resolves: init() calls fetchLinkedWallet() without awaiting it, which calls
\* apiClient.getLinkedWallets(), and the finally block runs setLoading(false)
initResume ==
    /\ initPc = "awaitAll"
    /\ \A f \in {"maps", "progress"} : refreshPc[f] = "settled"
    /\ operation(1, "getLinkedWallets", NoArgs)
    /\ walletPc' = "awaiting"
    /\ loading' = FALSE
    /\ initPc' = "done"
    /\ UNCHANGED <<courseVars, maps, progress, errorState, linkedWalletAddress, refreshPc>>

\* fetchLinkedWallet() resumes after its await: setLinkedWalletAddress(stellarAddress), or
\* the catch block, which only logs
fetchLinkedWalletResume ==
    /\ walletPc = "awaiting"
    /\ pc[1] = "done"
    /\ linkedWalletAddress' = stellarAddressOrKept(1)
    /\ walletPc' = "settled"
    /\ UNCHANGED <<coordVars, callVars, fetchVars, errVars, opVars, options, value, ctorVars,
                   courseVars, maps, progress, loading, errorState, initPc, refreshPc>>

\* onWalletLinked(address, network): the host reports a wallet the user has just linked
onWalletLinked(address) ==
    /\ linkedWalletAddress' = address
    /\ UNCHANGED <<coordVars, callVars, fetchVars, errVars, opVars, options, value, ctorVars,
                   courseVars, maps, progress, loading, errorState, initPc, refreshPc, walletPc>>

\* a step that is not part of the synchronous start of init()
Later(A) == initPc # "refreshMaps" /\ A

\* what the backend answers the three requests of the initial fetch with
LoadFailures ==
    {HttpResponse(401, "TOKEN_EXPIRED", "json"), HttpResponse(403, "NONE", "json"),
     HttpResponse(404, "NONE", "json"), HttpResponse(500, "NONE", "json"),
     HttpResponse(200, "NONE", "[]")}

LoadNext ==
    \/ NoFault(init)
    \/ NoFault(initRefreshProgress)
    \/ \E f \in {"maps", "progress"} : Later(NoFault(refreshResume(f)))
    \/ Later(NoFault(initResume))
    \/ Later(NoFault(fetchLinkedWalletResume))
    \/ Later(NoFault(onWalletLinked("G2")))
    \/ \E c \in Calls : Later(NoFault(SendRequest(c)))
    \/ \E c \in Calls : Later(NoFault(FetchResponse(c, PlainResponse)))
    \/ \E c \in Calls, r \in LoadFailures : Later(Fault(FetchResponse(c, r)))
    \/ \E c \in Calls : Later(Fault(FetchTimeout(c)))
    \/ \E c \in Calls : Later(Fault(FetchNetworkError(c)))
    \/ \E c \in Calls : Later(NoFault(SleepDone(c)))
    \/ \E c \in Calls : Later(NoFault(HandleResponse(c)))
    \/ \E c \in Calls : Later(NoFault(Resend(c)))
    \/ \E i \in 1..Invocations : Later(NoFault(ProviderSettles(i, "settledToken")))
    \/ \E i \in 1..Invocations : Later(Fault(ProviderSettles(i, "settledError")))
    \/ \E i \in 1..Invocations : Later(NoFault(RefreshThen(i)))
    \/ \E i \in 1..Invocations : Later(NoFault(RefreshCatch(i)))

LoadSpec == Init /\ [][LoadNext]_vars

\* C32: a failure of getLinkedWallets() in the provider, whatever its kind, is swallowed:
\* when fetchLinkedWallet resumes with the failure the linked-wallet address and the error
\* state stay as they were, and the initial load has completed (loading is false) from the
\* moment the wallet request was started.
C32_Failed == walletPc = "awaiting" /\ pc[1] = "done" /\ outcome[1].kind # "value"

C32_State == walletPc # "none" => (~loading /\ initPc = "done")

C32_Step ==
    (C32_Failed /\ walletPc' = "settled") =>
        /\ linkedWalletAddress' = linkedWalletAddress
        /\ errorState' = errorState
        /\ loading' = FALSE

C32_WalletFailureSwallowed == []C32_State /\ [][C32_Step]_vars

\* the wallet request timed out twice after the host had reported a linked wallet: the
\* address reported is still there, no error is set, the load is complete
C32_Witness ==
    /\ walletPc = "settled"
    /\ outcome[1] = Rejected(VenalabsApiError("TIMEOUT", 0))
    /\ linkedWalletAddress = "G2"
    /\ errorState = NoSdkError
    /\ ~loading

\* ------------------------------------------------------------ termination
\* a backend that answers anything, in any order, to the one call made: a get or a post
AnyResponses == ClientResponses \cup {HttpResponse(429, "NONE", "json")}

\* the steps of the calls in progress: every provider invocation settles, every fetch()
\* answers, fails or is aborted by its timer, and the event loop runs every continuation
TerminationStep ==
    \/ \E c \in Calls : NoFault(SendRequest(c))
    \/ \E c \in Calls, r \in AnyResponses : NoFault(FetchResponse(c, r))
    \/ \E c \in Calls : NoFault(FetchTimeout(c))
    \/ \E c \in Calls : NoFault(FetchNetworkError(c))
    \/ \E c \in Calls : NoFault(SleepDone(c))
    \/ \E c \in Calls : NoFault(HandleResponse(c))
    \/ \E c \in Calls : NoFault(Resend(c))
    \/ \E i \in 1..Invocations, how \in Settled : NoFault(ProviderSettles(i, how))
    \/ \E i \in 1..Invocations : NoFault(RefreshThen(i))
    \/ \E i \in 1..Invocations : NoFault(RefreshCatch(i))

TerminationNext ==
    \/ \E c \in Calls :
          (\A d \in Calls : pc[d] = "idle") /\ NoFault(Invoke(c, PlainOp(c), PlainArgs(c)))
    \/ TerminationStep

TerminationSpec == Init /\ [][TerminationNext]_vars /\ WF_vars(TerminationStep)

\* C35: every call that has been made settles, whatever the backend answers and in
\* whatever order (401, 5xx, 429, network errors, timeouts), provided provider invocations
\* settle and HTTP attempts answer or are aborted.
C35_Terminates == \A c \in Calls : (pc[c] # "idle") ~> (pc[c] = "done")

\* a call settled after the most HTTP attempts a call can make: both attempts of the first
\* send, a 401, and both attempts of the resend
C35_Witness ==
    \E c \in Calls :
        /\ pc[c] = "done" /\ isRetry[c]
        /\ priorAttempts[c] = CLIENT_RETRIES + 1 /\ attempts[c] = CLIENT_RETRIES + 1

\* --------------------------------- a provider that may return the empty string
\* provider invocations made in one behaviour
MaxInvocations == 3

\* the application has taken the result of call c; its slot serves the next call
forget(c) ==
    /\ pc[c] = "done"
    /\ release(c)
    /\ UNCHANGED <<coordVars, retries, errVars, ctorVars, memoVars>>

EmptyNext ==
    \/ \E c \in Calls :
          Invocations < MaxInvocations /\ NoFault(Invoke(c, PlainOp(c), PlainArgs(c)))
    \/ \E c \in Calls : NoFault(forget(c))
    \/ \E c \in Calls : NoFault(SendRequest(c))
    \/ \E c \in Calls : NoFault(FetchResponse(c, PlainResponse))
    \/ \E c \in Calls : NoFault(HandleResponse(c))
    \/ \E i \in 1..Invocations, how \in {"settledToken", "settledEmpty"} :
          NoFault(ProviderSettles(i, how))
    \/ \E i \in 1..Invocations : NoFault(RefreshThen(i))

EmptySpec == Init /\ [][EmptyNext]_vars

\* call c enters getToken() at the start of a send while the cache holds ""
C38_GetTokenOnEmpty(c) ==
    /\ cachedToken = EmptyString
    /\ pc[c] = "idle" /\ pc'[c] = "awaitHeaders"

\* C38 as stated: once the provider has resolved to "", every getToken() invokes the
\* provider again, one invocation per send.
C38_AsStated ==
    [][\A c \in Calls : C38_GetTokenOnEmpty(c) => Invocations' = Invocations + 1]_vars

C38_State ==
    \A c \in Calls :
        (pc[c] = "awaitHeaders" /\ joined[c] = 0) => tok[c] \notin {Null, EmptyString}

C38_Step ==
    \A c \in Calls :
        C38_GetTokenOnEmpty(c) =>
            /\ joined'[c] # 0
            /\ tok'[c] = tok[c]
            /\ IF tokenPromise = Null
               THEN Invocations' = Invocations + 1 /\ joined'[c] = Invocations + 1
               ELSE Invocations' = Invocations /\ joined'[c] = tokenPromise

\* C38 (amended): a token is treated as cached only if it is a non-empty string.  While the
\* cache holds "", no getToken() returns the cache: each one invokes the provider again when
\* no refresh is in flight, and joins the invocation in flight otherwise.
C38_EmptyNeverServed == []C38_State /\ [][C38_Step]_vars

\* the first invocation resolved to "", which the cache holds; one call has started the
\* second invocation and the other call has joined it
C38_Witness ==
    /\ cachedToken = EmptyString
    /\ invState = <<"doneEmpty", "pending">>
    /\ \A c \in Calls : pc[c] = "awaitHeaders" /\ joined[c] = 2
====
